---------------------------- MODULE Spec2Model ----------------------------
(***************************************************************************)
(* A model of the LaTeX metadata extraction engine of anthology-ch         *)
(* (src/anthology/anthology/latex_parser.py).                              *)
(*                                                                         *)
(* Texts are Python str values, modelled as sequences of one-character     *)
(* strings.  Positions are Python's 0-based indices: At(text, i) is        *)
(* text[i] and Slice(text, a, b) is text[a:b].                             *)
(*                                                                         *)
(* The functions of the extractor are pure; each specification below draws *)
(* the inputs in its Init from a bounded set and applies one function per  *)
(* action.  The two delimiter scanners are modelled one loop iteration per *)
(* step, so that the running depth and index are state.                    *)
(***************************************************************************)
EXTENDS Integers, Sequences, FiniteSets, TLC

VARIABLES
    text,        \* the text / content argument of the call
    start_pos,   \* the start_pos argument of a delimiter scanner (0-based)
    fn,          \* the function that was called ("none" before the call)
    pc,          \* "ready" | "loop" (inside a scanner's while) | "done"
    i,           \* the scanner's loop index i
    count,       \* the scanner's brace_count / bracket_count
    parts,       \* parse_key_value_pairs' local list `parts`
    ret,         \* the returned value, once pc = "done"
    file,        \* the file a call reads or writes: [status, content]
    raised,      \* the exception that left the call ("none" if it returned)
    paper,       \* the attributes of the Paper object of a method call
    args,        \* the further arguments of a call, by name
    calls,       \* the calls of extract_all_metadata in progress, by worker
    patterns,    \* self.patterns of the extractor object the calls share
    papers,      \* the Paper objects of a cli command, in list order
    locals       \* the local variables of the running cli command

vars == <<text, start_pos, fn, pc, i, count, parts, ret,
          file, raised, paper, args, calls, patterns, papers, locals>>

\* what the functions of the parser neither read nor write
surroundings == <<file, raised, paper, args, calls>>

\* self.patterns as __init__ leaves it
InitialPatterns ==
    [simple |-> "\\\\(\\w+)\\{([^{}]*(?:\\{[^{}]*\\}[^{}]*)*)\\}",
     with_optional |->
        "\\\\(\\w+)(?:\\[([^\\]]*)\\])?\\{([^{}]*(?:\\{[^{}]*\\}[^{}]*)*)\\}",
     multiple_braced |-> "\\\\(\\w+)(\\{[^{}]*\\})+",
     complex_author |->
        "\\\\(\\w+)(?:\\[([^\\]]*)\\])?\\{([^{}]*(?:\\{[^{}]*\\}[^{}]*)*)\\}(?:\\s*\\[([^\\]]*)\\])?"]

\* a call of a function of the parser on a text: no file, no Paper object,
\* no further argument, no other call in progress
NoSurroundings ==
    /\ file = <<>>
    /\ raised = "none"
    /\ paper = <<>>
    /\ args = <<>>
    /\ calls = <<>>
    /\ patterns = InitialPatterns
    /\ papers = <<>>
    /\ locals = <<>>

---------------------------------------------------------------------------
(* Bounds of the model.                                                    *)

\* longest text handed to the delimiter scanners
MaxScanLen == 5

\* longest content handed to parse_key_value_pairs
MaxKVLen == 5

\* most items of a document with simple macros
MaxSimpleItems == 3

\* most items of a document with authors
MaxAuthorItems == 3

\* most items of a document with affiliations
MaxAffiliationItems == 3

\* most items of a document with commented-out macros
MaxCommentedItems == 3

\* most items of a document with authors and affiliations
MaxFormatItems == 3

\* most items of the content of a file handed to parse_latex_file
MaxFileItems == 2

\* most items of a document handed to one of the concurrent calls
MaxCallItems == 1

\* most items after the volume macros of a paper.tex handed to add_metadata
MaxPageItems == 2

\* most items of a paper.tex handed to add_doi
MaxDoiItems == 2

\* most items of a text handed to fill_value
MaxFillItems == 2

\* longest core of a string handed to is_doi_placeholder
MaxDoiLen == 3

\* longest text handed to slugify, and its widest max_width
MaxSlugLen == 5

MaxWidth == 5

\* most papers of a cli command that sets the paper orders
MaxPapers == 3

\* most papers in the output directory of a build
MaxBuildPapers == 2

\* the items of a document with commented-out and live macros
MaxMixedItems == 3

\* the items of a document with affiliations of the same number
MaxSharedItems == 3

---------------------------------------------------------------------------
(* Python str primitives.                                                  *)

At(s, k) == s[k + 1]

Slice(s, a, b) == SubSeq(s, a + 1, b)

\* every sequence over alphabet A of length at most n
StringsUpTo(A, n) == UNION {[1..k -> A] : k \in 0..n}

\* characters for which str.isspace() holds and that \s matches
Whitespace == {" ", "\n", "\t"}

Min(S) == CHOOSE x \in S : \A y \in S : x <= y

Max(S) == CHOOSE x \in S : \A y \in S : y <= x

\* str.strip(): the text without its leading and trailing whitespace
Strip(s) ==
    LET keep == {k \in 1..Len(s) : s[k] \notin Whitespace}
    IN  IF keep = {} THEN <<>> ELSE SubSeq(s, Min(keep), Max(keep))

\* `c in s` for a character c
Contains(s, c) == \E k \in 1..Len(s) : s[k] = c

\* Python values of more than one type: a str, a list of str, the bool True
Str(s) == [kind |-> "str", val |-> s]

List(l) == [kind |-> "list", val |-> l]

True == [kind |-> "bool", val |-> <<>>]

\* dict: a function from keys to values; d[k] = v
EmptyDict == <<>>

Put(d, k, v) == [x \in DOMAIN d \cup {k} |-> IF x = k THEN v ELSE d[x]]

\* no value yet
None == [found |-> FALSE, content |-> <<>>, pos |-> 0]

---------------------------------------------------------------------------
(* Delimited-content scanner: extract_balanced_braces and                  *)
(* extract_balanced_brackets.  The two functions are the same code up to   *)
(* the delimiter pair, which Open and Close give by function name.         *)

Scanners == {"extract_balanced_braces", "extract_balanced_brackets"}

Open(f) == IF f = "extract_balanced_braces" THEN "{" ELSE "["

Close(f) == IF f = "extract_balanced_braces" THEN "}" ELSE "]"

\* the value a scanner returns: (content or None, position)
Found(content, pos) == [found |-> TRUE, content |-> content, pos |-> pos]

NotFound(pos) == [found |-> FALSE, content |-> <<>>, pos |-> pos]

\* the guard before the loop: `if start_pos >= len(text) or text[start_pos] != "{"`
ScanRejects(t, s, f) == s >= Len(t) \/ At(t, s) # Open(f)

\* mutant of SkipsEscaped: a backslash skips the next index even at the
\* end of the text
SkipsPastEnd(t, k) == At(t, k) = "\\"

\* mutant of SkipsEscaped: a scanner that knows no escapes
SkipsNoEscape(t, k) == FALSE

\* `elif text[i] == "\\" and i + 1 < len(text)`: the next character is skipped
SkipsEscaped(t, k) == At(t, k) = "\\" /\ k + 1 < Len(t)

\* mutant of ClosesScan: the first closing delimiter ends the scan
ClosesAtAnyDepth(c) == TRUE

\* `if brace_count == 0` after the decrement: the closing delimiter met at
\* depth c is the one that matches the opening delimiter at start_pos
ClosesScan(c) == c - 1 = 0

\* mutant of Exhausted: `return None, i`
ExhaustedAtIndex(s, k) == [found |-> FALSE, content |-> <<>>, pos |-> k]

\* `return None, start_pos` after the loop ran off the end of the text at k
Exhausted(s, k) == NotFound(s)

\* One evaluation of the while condition and, when it holds, of the loop
\* body, from index k with running depth c.  `done` says that the function
\* returned (from inside the body, or after the loop ended).
ScanIter(t, s, k, c, f) ==
    IF ~(k < Len(t))
    THEN [done |-> TRUE, i |-> k, count |-> c, ret |-> Exhausted(s, k)]
    ELSE IF At(t, k) = Open(f)
    THEN [done |-> FALSE, i |-> k + 1, count |-> c + 1, ret |-> None]
    ELSE IF At(t, k) = Close(f)
    THEN IF ClosesScan(c)
         THEN [done |-> TRUE, i |-> k, count |-> c - 1,
               ret |-> Found(Slice(t, s + 1, k), k + 1)]
         ELSE [done |-> FALSE, i |-> k + 1, count |-> c - 1, ret |-> None]
    ELSE IF SkipsEscaped(t, k)
    THEN [done |-> FALSE, i |-> k + 2, count |-> c, ret |-> None]
    ELSE [done |-> FALSE, i |-> k + 1, count |-> c, ret |-> None]

RECURSIVE ScanLoop(_, _, _, _, _)
ScanLoop(t, s, k, c, f) ==
    LET st == ScanIter(t, s, k, c, f)
    IN  IF st.done THEN st.ret ELSE ScanLoop(t, s, st.i, st.count, f)

\* the whole function, as its callers use it
ExtractBalanced(t, s, f) ==
    IF ScanRejects(t, s, f) THEN NotFound(s) ELSE ScanLoop(t, s, s, 0, f)

extract_balanced_braces(t, s) == ExtractBalanced(t, s, "extract_balanced_braces")

extract_balanced_brackets(t, s) == ExtractBalanced(t, s, "extract_balanced_brackets")

---------------------------------------------------------------------------
(* The scanners as a state machine.                                        *)

ScanAlphabet == {"{", "}", "[", "]", "\\", "a"}

InitScan ==
    /\ text \in StringsUpTo(ScanAlphabet, MaxScanLen)
    /\ start_pos \in 0..(Len(text) + 1)
    /\ fn = "none"
    /\ pc = "ready"
    /\ i = 0
    /\ count = 0
    /\ parts = <<>>
    /\ ret = None
    /\ NoSurroundings

\* entry of scanner f: the guard, then brace_count = 0, i = start_pos
ScanCall(f) ==
    /\ pc = "ready"
    /\ fn' = f
    /\ IF ScanRejects(text, start_pos, f)
       THEN /\ pc' = "done"
            /\ ret' = NotFound(start_pos)
            /\ UNCHANGED <<i, count>>
       ELSE /\ pc' = "loop"
            /\ i' = start_pos
            /\ count' = 0
            /\ ret' = ret
    /\ UNCHANGED <<text, start_pos, parts, surroundings, patterns, papers, locals>>

\* one iteration of scanner f's while loop, or the return after it
ScanStep(f) ==
    /\ pc = "loop"
    /\ fn = f
    /\ LET st == ScanIter(text, start_pos, i, count, f)
       IN  /\ i' = st.i
           /\ count' = st.count
           /\ pc' = IF st.done THEN "done" ELSE "loop"
           /\ ret' = IF st.done THEN st.ret ELSE ret
    /\ UNCHANGED <<text, start_pos, fn, parts, surroundings, patterns, papers, locals>>

BracesCall == ScanCall("extract_balanced_braces")

BracesStep == ScanStep("extract_balanced_braces")

BracketsCall == ScanCall("extract_balanced_brackets")

BracketsStep == ScanStep("extract_balanced_brackets")

NextScan == BracesCall \/ BracesStep \/ BracketsCall \/ BracketsStep

SpecScan == InitScan /\ [][NextScan]_vars

\* the scanners under a scheduler that lets a started call run on
SpecScanLive == SpecScan /\ WF_vars(NextScan)

---------------------------------------------------------------------------
(* What the scanners are meant to compute, stated on the text alone.       *)

\* the number of backslashes that immediately precede position j, counted
\* back no further than the character after the opening delimiter at s
BackslashRun(t, s, j) ==
    CHOOSE n \in 0..(j - s - 1) :
        /\ \A k \in 1..n : At(t, j - k) = "\\"
        /\ n = j - s - 1 \/ At(t, j - n - 1) # "\\"

\* position j holds a character that an unescaped backslash escapes
Escaped(t, s, j) == s < j /\ j < Len(t) /\ BackslashRun(t, s, j) % 2 = 1

\* unescaped occurrences of character c at positions a..b
Unescaped(t, s, c, a, b) == {k \in a..b : At(t, k) = c /\ ~Escaped(t, s, k)}

\* opening minus closing unescaped delimiters at positions s..j
Balance(t, s, j, f) ==
    Cardinality(Unescaped(t, s, Open(f), s, j))
        - Cardinality(Unescaped(t, s, Close(f), s, j))

\* the closing delimiter that matches the opening delimiter at s: the first
\* position at which the balance is back to 0 (empty when there is none)
MatchingClose(t, s, f) ==
    {j \in (s + 1)..(Len(t) - 1) :
        /\ Balance(t, s, j, f) = 0
        /\ \A m \in s..(j - 1) : Balance(t, s, m, f) > 0}

PointsAtOpen(t, s, f) == s < Len(t) /\ At(t, s) = Open(f)

ScanReturned == pc = "done" /\ fn \in Scanners

\* C1: when start_pos points at an opening delimiter that has a matching
\* closing delimiter, the scanner returns the text strictly between the two
\* and the index one past the closing delimiter, at any nesting depth.
C1_BalancedContent ==
    ScanReturned /\ PointsAtOpen(text, start_pos, fn) =>
        \A m \in MatchingClose(text, start_pos, fn) :
            ret = Found(Slice(text, start_pos + 1, m), m + 1)

\* a found group that holds a nested group, not at the start of the text
C1_Witness ==
    /\ ScanReturned /\ ret.found /\ start_pos > 0
    /\ \E k \in (start_pos + 1)..(ret.pos - 2) :
          At(text, k) = Open(fn) /\ Balance(text, start_pos, k, fn) = 2

\* C2: a start index past the end, one that does not point at the opening
\* delimiter, or an opening delimiter that is never closed gives
\* (None, start_pos); the scan reads no position outside the text.
C2_NotFoundSentinel ==
    ScanReturned /\ ( \/ ~PointsAtOpen(text, start_pos, fn)
                      \/ MatchingClose(text, start_pos, fn) = {} ) =>
        ret = NotFound(start_pos)

\* an unterminated group, scanned to the end of the text
C2_Witness ==
    /\ ScanReturned /\ start_pos > 0
    /\ PointsAtOpen(text, start_pos, fn)
    /\ MatchingClose(text, start_pos, fn) = {}
    /\ i = Len(text) /\ count = 2

\* C3: the running depth counts the unescaped delimiters only, and the loop
\* index never rests on an escaped character: a delimiter that follows an
\* unescaped backslash leaves the depth as it was.  {a\}b} yields a\}b.
C3_EscapedSkipped ==
    /\ pc = "loop" =>
          /\ ~Escaped(text, start_pos, i)
          /\ count = Cardinality(Unescaped(text, start_pos, Open(fn), start_pos, i - 1))
                   - Cardinality(Unescaped(text, start_pos, Close(fn), start_pos, i - 1))
    /\ extract_balanced_braces(<<"{", "a", "\\", "}", "b", "}">>, 0)
          = Found(<<"a", "\\", "}", "b">>, 6)

\* a scan that went past an escaped closing delimiter and then found the
\* matching one
C3_Witness ==
    /\ ScanReturned /\ ret.found
    /\ \E k \in (start_pos + 1)..(i - 1) :
          Escaped(text, start_pos, k) /\ At(text, k) = Close(fn)

---------------------------------------------------------------------------
(* Key/value parser: parse_key_value_pairs.                                *)

Openers == {"(", "[", "{"}

Closers == {")", "]", "}"}

\* mutant of SplitsHere: every comma splits
SplitsAtAnyComma(char, paren_count) == char = ","

\* `if char == "," and paren_count == 0`
SplitsHere(char, paren_count) == char = "," /\ paren_count = 0

\* the `for char in content` loop from the k-th character on, and the
\* `if current_part.strip()` after it; the value is the list `parts`
RECURSIVE SplitLoop(_, _, _, _, _)
SplitLoop(content, k, ps, current_part, paren_count) ==
    IF k > Len(content)
    THEN IF Strip(current_part) # <<>>
         THEN Append(ps, Strip(current_part))
         ELSE ps
    ELSE LET char == content[k]
         IN  IF SplitsHere(char, paren_count)
             THEN SplitLoop(content, k + 1, Append(ps, Strip(current_part)),
                            <<>>, paren_count)
             ELSE SplitLoop(content, k + 1, ps, Append(current_part, char),
                            IF char \in Openers THEN paren_count + 1
                            ELSE IF char \in Closers THEN paren_count - 1
                            ELSE paren_count)

\* mutant of SplitAt: part.rsplit("=", 1)
LastEquals(part) == Max({k \in 1..Len(part) : part[k] = "="})

\* part.split("=", 1) splits at the first "="
SplitAt(part) == Min({k \in 1..Len(part) : part[k] = "="})

\* the `for part in parts` loop from the k-th part on
RECURSIVE PairsLoop(_, _, _)
PairsLoop(ps, k, pairs) ==
    IF k > Len(ps)
    THEN pairs
    ELSE LET part == ps[k]
         IN  IF Contains(part, "=")
             THEN LET e == SplitAt(part)
                      key == SubSeq(part, 1, e - 1)
                      value == SubSeq(part, e + 1, Len(part))
                  IN  PairsLoop(ps, k + 1, Put(pairs, Strip(key), Str(Strip(value))))
             ELSE IF Strip(part) # <<>>
             THEN PairsLoop(ps, k + 1, Put(pairs, Strip(part), True))
             ELSE PairsLoop(ps, k + 1, pairs)

\* the list `parts` the function builds (none when `not content`)
KeyValueParts(content) ==
    IF content = <<>> THEN <<>> ELSE SplitLoop(content, 1, <<>>, <<>>, 0)

parse_key_value_pairs(content) ==
    IF content = <<>> THEN EmptyDict ELSE PairsLoop(KeyValueParts(content), 1, EmptyDict)

KVAlphabet == {",", "=", " ", "a", "(", ")", "]"}

InitKV ==
    /\ text \in StringsUpTo(KVAlphabet, MaxKVLen)
    /\ start_pos = 0
    /\ fn = "none"
    /\ pc = "ready"
    /\ i = 0
    /\ count = 0
    /\ parts = <<>>
    /\ ret = None
    /\ NoSurroundings

ParseKeyValuePairs ==
    /\ pc = "ready"
    /\ fn' = "parse_key_value_pairs"
    /\ parts' = KeyValueParts(text)
    /\ ret' = parse_key_value_pairs(text)
    /\ pc' = "done"
    /\ UNCHANGED <<text, start_pos, i, count, surroundings, patterns, papers, locals>>

NextKV == ParseKeyValuePairs

SpecKV == InitKV /\ [][NextKV]_vars

---------------------------------------------------------------------------
(* What parse_key_value_pairs is meant to compute, stated on the content.  *)

\* the shared nesting depth in front of position k (0-based)
DepthBefore(c, k) ==
    Cardinality({j \in 0..(k - 1) : At(c, j) \in Openers})
        - Cardinality({j \in 0..(k - 1) : At(c, j) \in Closers})

TopLevelCommas(c) == {k \in 0..(Len(c) - 1) : At(c, k) = "," /\ DepthBefore(c, k) = 0}

\* the piece of c that ends in front of position e: it starts after the
\* last of the commas before e
PieceBefore(c, commas, e) ==
    LET before == {k \in commas : k < e}
    IN  Slice(c, IF before = {} THEN 0 ELSE Max(before) + 1, e)

\* the trimmed pieces that end in front of the positions of `ends`, in order
RECURSIVE PiecesAt(_, _, _)
PiecesAt(c, commas, ends) ==
    IF ends = {} THEN <<>>
    ELSE <<Strip(PieceBefore(c, commas, Min(ends)))>>
            \o PiecesAt(c, commas, ends \ {Min(ends)})

\* the trimmed top-level segments in order; the text after the last
\* top-level comma is a segment unless it is blank
TopLevelSegments(c) ==
    PiecesAt(c, TopLevelCommas(c),
             TopLevelCommas(c)
                \cup (IF Strip(PieceBefore(c, TopLevelCommas(c), Len(c))) # <<>>
                      THEN {Len(c)} ELSE {}))

KVReturned == pc = "done" /\ fn = "parse_key_value_pairs"

\* C4: the content is split at exactly the commas in front of which the one
\* shared counter of ( [ { against ) ] } is 0; a comma inside a group stays
\* in its segment.
C4_SplitAtDepthZero == KVReturned => parts = TopLevelSegments(text)

\* two segments, the second holding a comma inside a group
C4_Witness ==
    /\ KVReturned /\ Len(parts) = 2
    /\ parts[1] = <<"a">>
    /\ parts[2] = <<"(", ",", ")">>

SegKey(seg) ==
    IF Contains(seg, "=")
    THEN Strip(SubSeq(seg, 1, Min({k \in 1..Len(seg) : seg[k] = "="}) - 1))
    ELSE seg

SegValue(seg) ==
    IF Contains(seg, "=")
    THEN Str(Strip(SubSeq(seg, Min({k \in 1..Len(seg) : seg[k] = "="}) + 1, Len(seg))))
    ELSE True

NonEmptySegments(c) ==
    {k \in 1..Len(TopLevelSegments(c)) : TopLevelSegments(c)[k] # <<>>}

\* C5 as stated: every non-empty segment's key is mapped to that segment's
\* value (text after the first "=", or true), and only those keys are mapped.
C5_EverySegmentMapped ==
    KVReturned =>
        LET segs == TopLevelSegments(text)
        IN  /\ DOMAIN ret = {SegKey(segs[k]) : k \in NonEmptySegments(text)}
            /\ \A k \in NonEmptySegments(text) : ret[SegKey(segs[k])] = SegValue(segs[k])

\* C5 amended: the same, where of several segments with one key the last
\* decides the entry.
C5_LastSegmentMapped ==
    KVReturned =>
        LET segs == TopLevelSegments(text)
        IN  /\ DOMAIN ret = {SegKey(segs[k]) : k \in NonEmptySegments(text)}
            /\ \A k \in NonEmptySegments(text) :
                  (\A m \in NonEmptySegments(text) :
                        m > k => SegKey(segs[m]) # SegKey(segs[k]))
                  => ret[SegKey(segs[k])] = SegValue(segs[k])

\* a key=value segment whose value holds a second "=", beside a flag
C5_Witness ==
    /\ KVReturned
    /\ \E k, m \in NonEmptySegments(text) :
          LET segs == TopLevelSegments(text)
          IN  /\ SegKey(segs[k]) = <<"a">>
              /\ SegValue(segs[k]) = Str(<<"=">>)
              /\ SegValue(segs[m]) = True
              /\ ret[SegKey(segs[k])] = Str(<<"=">>)
              /\ ret[SegKey(segs[m])] = True

---------------------------------------------------------------------------
(* Python's re module, as far as the extractor's patterns use it: a        *)
(* backtracking matcher.  A pattern is a tree; Match gives every way the   *)
(* pattern can match from a position, as the sequence of (end position,    *)
(* captured groups) in the order in which backtracking tries them, so that *)
(* the first element is the match re reports.  Greedy * and ? try the      *)
(* longer alternative first.                                               *)

RChr(c) == [op |-> "set", set |-> {c}]          \* a literal character

RSet(S) == [op |-> "set", set |-> S]            \* [...] and \s, \w

RNot(S) == [op |-> "not", set |-> S]            \* [^...]

RStr(str) == [op |-> "str", str |-> str]        \* a literal string

RCat(rs) == [op |-> "cat", rs |-> rs]           \* concatenation

RStar(r) == [op |-> "star", r |-> r]            \* r*

ROpt(r) == [op |-> "opt", r |-> r]              \* r?  and (?:r)?

RGrp(n, r) == [op |-> "grp", n |-> n, r |-> r]  \* capturing group number n

\* no group has taken part in the match yet
NoGroups == [n \in 1..2 |-> <<-1, -1>>]

HasPrefixAt(t, k, str) ==
    /\ k + Len(str) <= Len(t)
    /\ \A j \in 1..Len(str) : t[k + j] = str[j]

RECURSIVE Match(_, _, _, _), MatchEach(_, _, _), MatchCat(_, _, _, _)
Match(r, t, k, groups) ==
    CASE r.op = "set" ->
            IF k < Len(t) /\ At(t, k) \in r.set
            THEN <<[pos |-> k + 1, groups |-> groups]>> ELSE <<>>
      [] r.op = "not" ->
            IF k < Len(t) /\ At(t, k) \notin r.set
            THEN <<[pos |-> k + 1, groups |-> groups]>> ELSE <<>>
      [] r.op = "str" ->
            IF HasPrefixAt(t, k, r.str)
            THEN <<[pos |-> k + Len(r.str), groups |-> groups]>> ELSE <<>>
      [] r.op = "cat" ->
            MatchCat(r.rs, 1, t, <<[pos |-> k, groups |-> groups]>>)
      [] r.op = "opt" ->
            Match(r.r, t, k, groups) \o <<[pos |-> k, groups |-> groups]>>
      [] r.op = "star" ->
            MatchEach(r, t, SelectSeq(Match(r.r, t, k, groups), LAMBDA m : m.pos > k))
                \o <<[pos |-> k, groups |-> groups]>>
      [] r.op = "grp" ->
            LET ms == Match(r.r, t, k, groups)
            IN  [j \in 1..Len(ms) |->
                    [pos |-> ms[j].pos,
                     groups |-> [ms[j].groups EXCEPT ![r.n] = <<k, ms[j].pos>>]]]

\* r tried from each of the partial matches ms, in their order
MatchEach(r, t, ms) ==
    IF ms = <<>> THEN <<>>
    ELSE Match(r, t, ms[1].pos, ms[1].groups) \o MatchEach(r, t, Tail(ms))

\* rs[j], rs[j+1], ... in sequence, from each of the partial matches ms
MatchCat(rs, j, t, ms) ==
    IF j > Len(rs) \/ ms = <<>> THEN ms
    ELSE MatchCat(rs, j + 1, t, MatchEach(rs[j], t, ms))

\* re.finditer(r, t) from position k on: the leftmost match, then the
\* matches after its end (after an empty match, from the next character)
RECURSIVE FindIterFrom(_, _, _)
FindIterFrom(r, t, k) ==
    IF k > Len(t) THEN <<>>
    ELSE LET ms == Match(r, t, k, NoGroups)
         IN  IF ms = <<>>
             THEN FindIterFrom(r, t, k + 1)
             ELSE <<[start |-> k, end |-> ms[1].pos, groups |-> ms[1].groups]>>
                     \o FindIterFrom(r, t, IF ms[1].pos = k THEN k + 1 ELSE ms[1].pos)

FindIter(r, t) == FindIterFrom(r, t, 0)

\* match.group(n) is None when group n took no part in the match
GroupIsNone(m, n) == m.groups[n][1] < 0

\* match.group(n)
Group(t, m, n) == Slice(t, m.groups[n][1], m.groups[n][2])

\* mutant of FindAll: a match right after a % is left out
FindAllLive(r, t) ==
    LET ms == SelectSeq(FindIter(r, t),
                        LAMBDA mt : ~(mt.start > 0 /\ At(t, mt.start - 1) = "%"))
    IN  [j \in 1..Len(ms) |-> Group(t, ms[j], 1)]

\* re.findall(r, t) for a pattern with one group: the list of group(1)
FindAll(r, t) ==
    LET ms == FindIter(r, t) IN [j \in 1..Len(ms) |-> Group(t, ms[j], 1)]

---------------------------------------------------------------------------
(* The extractor's patterns.                                               *)

\* [^{}]*(?:\{[^{}]*\}[^{}]*)*   braced content with one level of nesting
NotBrace == RNot({"{", "}"})

OneLevelContent ==
    RCat(<<RStar(NotBrace),
           RStar(RCat(<<RChr("{"), RStar(NotBrace), RChr("}"), RStar(NotBrace)>>))>>)

Spaces == RStar(RSet(Whitespace))

\* the characters of the macro names
NameChars ==
    [title |-> <<"t", "i", "t", "l", "e">>,
     keywords |-> <<"k", "e", "y", "w", "o", "r", "d", "s">>,
     pubyear |-> <<"p", "u", "b", "y", "e", "a", "r">>,
     pubvolume |-> <<"p", "u", "b", "v", "o", "l", "u", "m", "e">>,
     pagestart |-> <<"p", "a", "g", "e", "s", "t", "a", "r", "t">>,
     pageend |-> <<"p", "a", "g", "e", "e", "n", "d">>,
     doi |-> <<"d", "o", "i">>,
     addbibresource |-> <<"a", "d", "d", "b", "i", "b", "r", "e", "s", "o", "u", "r", "c", "e">>,
     author |-> <<"a", "u", "t", "h", "o", "r">>,
     affiliation |-> <<"a", "f", "f", "i", "l", "i", "a", "t", "i", "o", "n">>,
     conferencename |-> <<"c", "o", "n", "f", "e", "r", "e", "n", "c", "e", "n", "a", "m", "e">>,
     conferenceeditors |-> <<"c", "o", "n", "f", "e", "r", "e", "n", "c", "e", "e", "d", "i", "t", "o", "r", "s">>]

\* \\author(?:\[([^\]]*)\])?\s*\{([^{}]*(?:\{[^{}]*\}[^{}]*)*)\}
author_pattern ==
    RCat(<<RStr(<<"\\">> \o NameChars.author),
           ROpt(RCat(<<RChr("["), RGrp(1, RStar(RNot({"]"}))), RChr("]")>>)),
           Spaces, RChr("{"), RGrp(2, OneLevelContent), RChr("}")>>)

\* \\affiliation\s*\{([^}]*)\}\s*\{([^{}]*(?:\{[^{}]*\}[^{}]*)*)\}
affiliation_pattern ==
    RCat(<<RStr(<<"\\">> \o NameChars.affiliation),
           Spaces, RChr("{"), RGrp(1, RStar(RNot({"}"}))), RChr("}"),
           Spaces, RChr("{"), RGrp(2, OneLevelContent), RChr("}")>>)

\* mutant of simple_pattern: the closing brace of the argument is optional
simple_pattern_open_ended(macro_name) ==
    RCat(<<RStr(<<"\\">> \o NameChars[macro_name]),
           Spaces, RChr("{"), RGrp(1, OneLevelContent), ROpt(RChr("}"))>>)

\* \\NAME\s*\{([^{}]*(?:\{[^{}]*\}[^{}]*)*)}   with NAME = re.escape(macro_name)
simple_pattern(macro_name) ==
    RCat(<<RStr(<<"\\">> \o NameChars[macro_name]),
           Spaces, RChr("{"), RGrp(1, OneLevelContent), RChr("}")>>)

---------------------------------------------------------------------------
(* Simple-macro extractor: extract_simple_macros.                          *)

\* the default macro_names
DefaultMacroNames ==
    <<"title", "keywords", "pubyear", "pubvolume", "pagestart", "pageend",
      "doi", "addbibresource">>

StripAll(l) == [j \in 1..Len(l) |-> Strip(l[j])]

\* mutant of MacroValue: every found macro gives the first match only
FirstValueOnly(matches) == Str(Strip(matches[1]))

\* the value stored for a macro with a non-empty list of matches
MacroValue(matches) ==
    IF Len(matches) = 1 THEN Str(Strip(matches[1])) ELSE List(StripAll(matches))

\* the `for macro_name in macro_names` loop from the k-th name on
RECURSIVE SimpleLoop(_, _, _, _)
SimpleLoop(t, macro_names, k, results) ==
    IF k > Len(macro_names)
    THEN results
    ELSE LET macro_name == macro_names[k]
             matches == FindAll(simple_pattern(macro_name), t)
         IN  SimpleLoop(t, macro_names, k + 1,
                        IF matches # <<>>
                        THEN Put(results, macro_name, MacroValue(matches))
                        ELSE results)

extract_simple_macros(t, macro_names) == SimpleLoop(t, macro_names, 1, EmptyDict)

---------------------------------------------------------------------------
(* Author extractor: extract_author_macros.                                *)

\* s.split(sep) for a one-character separator
RECURSIVE Split(_, _)
Split(s, sep) ==
    IF ~Contains(s, sep) THEN <<s>>
    ELSE LET e == Min({k \in 1..Len(s) : s[k] = sep})
         IN  <<SubSeq(s, 1, e - 1)>> \o Split(SubSeq(s, e + 1, Len(s)), sep)

\* mutant of AffiliationNumbers: the tokens without the guard for a blank
\* bracket
SplitWhateverIsThere(t, m) ==
    IF GroupIsNone(m, 1) THEN <<>> ELSE StripAll(Split(Strip(Group(t, m, 1)), ","))

\* `if match.group(1):` ... `if affiliation_nums:` ... split(",")
AffiliationNumbers(t, m) ==
    IF GroupIsNone(m, 1) \/ Group(t, m, 1) = <<>>
    THEN <<>>
    ELSE LET affiliation_nums == Strip(Group(t, m, 1))
         IN  IF affiliation_nums # <<>>
             THEN StripAll(Split(affiliation_nums, ","))
             ELSE <<>>

\* `while pos < len(text) and text[pos].isspace(): pos += 1`
RECURSIVE SkipSpaces(_, _)
SkipSpaces(t, pos) ==
    IF pos < Len(t) /\ At(t, pos) \in Whitespace THEN SkipSpaces(t, pos + 1) ELSE pos

\* mutant of AuthorMetadata: the bracket is looked for right at match.end()
MetadataWithoutSkip(t, m) ==
    LET pos == m.end
    IN  IF pos < Len(t) /\ At(t, pos) = "["
        THEN LET r == extract_balanced_brackets(t, pos)
             IN  IF r.found /\ r.content # <<>>
                 THEN parse_key_value_pairs(r.content)
                 ELSE EmptyDict
        ELSE EmptyDict

\* the optional metadata block after the author name
AuthorMetadata(t, m) ==
    LET pos == SkipSpaces(t, m.end)
    IN  IF pos < Len(t) /\ At(t, pos) = "["
        THEN LET r == extract_balanced_brackets(t, pos)
             IN  IF r.found /\ r.content # <<>>
                 THEN parse_key_value_pairs(r.content)
                 ELSE EmptyDict
        ELSE EmptyDict

extract_author_macros(t) ==
    LET matches == FindIter(author_pattern, t)
    IN  [j \in 1..Len(matches) |->
            [name |-> Strip(Group(t, matches[j], 2)),
             affiliation_numbers |-> AffiliationNumbers(t, matches[j]),
             metadata |-> AuthorMetadata(t, matches[j])]]

---------------------------------------------------------------------------
(* Affiliation extractor: extract_affiliation_macros.                      *)

\* int(s) written back as a str: the digits without leading zeros
RECURSIVE DropLeadingZeros(_)
DropLeadingZeros(s) ==
    IF Len(s) > 1 /\ s[1] = "0" THEN DropLeadingZeros(Tail(s)) ELSE s

\* mutant of AffiliationNumber: the number goes through an integer
NumberAsInteger(raw) == DropLeadingZeros(Strip(raw))

\* match.group(1).strip(): the number stays the token that was written
AffiliationNumber(raw) == Strip(raw)

extract_affiliation_macros(t) ==
    LET matches == FindIter(affiliation_pattern, t)
    IN  [j \in 1..Len(matches) |->
            [number |-> AffiliationNumber(Group(t, matches[j], 1)),
             text |-> Strip(Group(t, matches[j], 2))]]

---------------------------------------------------------------------------
(* Commented-macro extractor: extract_commented_macros.                    *)

\* the characters \w matches
WordChars ==
    {"a", "b", "c", "d", "e", "f", "g", "h", "i", "j", "k", "l", "m",
     "n", "o", "p", "q", "r", "s", "t", "u", "v", "w", "x", "y", "z",
     "A", "B", "C", "D", "E", "F", "G", "H", "I", "J", "K", "L", "M",
     "N", "O", "P", "Q", "R", "S", "T", "U", "V", "W", "X", "Y", "Z",
     "0", "1", "2", "3", "4", "5", "6", "7", "8", "9", "_"}

\* %\\(\w+)\s*\{([^{}]*(?:\{[^{}]*\}[^{}]*)*)\}
commented_pattern ==
    RCat(<<RChr("%"), RChr("\\"),
           RGrp(1, RCat(<<RSet(WordChars), RStar(RSet(WordChars))>>)),
           Spaces, RChr("{"), RGrp(2, OneLevelContent), RChr("}")>>)

\* mutant of StoreCommented: a name that is already there keeps its content
KeepsFirstCommented(commented, macro_name, content) ==
    IF macro_name \in DOMAIN commented
    THEN commented
    ELSE Put(commented, macro_name, content)

\* `commented[macro_name] = content`
StoreCommented(commented, macro_name, content) == Put(commented, macro_name, content)

\* the `for match in matches` loop from the k-th match on
RECURSIVE CommentedLoop(_, _, _, _)
CommentedLoop(t, matches, k, commented) ==
    IF k > Len(matches)
    THEN commented
    ELSE LET macro_name == Group(t, matches[k], 1)
             content == Strip(Group(t, matches[k], 2))
         IN  CommentedLoop(t, matches, k + 1,
                           StoreCommented(commented, macro_name, content))

extract_commented_macros(t) ==
    CommentedLoop(t, FindIter(commented_pattern, t), 1, EmptyDict)

---------------------------------------------------------------------------
(* Aggregator: extract_all_metadata.                                       *)

PyNone == [kind |-> "none", val |-> <<>>]

\* mutant of pub_fields: the title is copied as well
pub_fields_and_title ==
    <<"pubyear", "pubvolume", "pagestart", "pageend", "doi", "addbibresource", "title">>

\* the list pub_fields
pub_fields == <<"pubyear", "pubvolume", "pagestart", "pageend", "doi", "addbibresource">>

\* the `for field in pub_fields` loop from the k-th field on
RECURSIVE PubInfoLoop(_, _, _)
PubInfoLoop(simple_macros, k, pub_info) ==
    IF k > Len(pub_fields)
    THEN pub_info
    ELSE PubInfoLoop(simple_macros, k + 1,
                     IF pub_fields[k] \in DOMAIN simple_macros
                     THEN Put(pub_info, pub_fields[k], simple_macros[pub_fields[k]])
                     ELSE pub_info)

extract_all_metadata(latex_content) ==
    LET simple_macros == extract_simple_macros(latex_content, DefaultMacroNames)
    IN  [title |-> IF "title" \in DOMAIN simple_macros
                   THEN simple_macros["title"] ELSE PyNone,
         authors |-> extract_author_macros(latex_content),
         affiliations |-> extract_affiliation_macros(latex_content),
         keywords |-> IF "keywords" \in DOMAIN simple_macros
                      THEN simple_macros["keywords"] ELSE PyNone,
         publication_info |-> PubInfoLoop(simple_macros, 1, EmptyDict),
         commented_macros |-> extract_commented_macros(latex_content)]

---------------------------------------------------------------------------
(* Affiliation joiner: format_authors_with_affiliations.                   *)

\* `d.get(key, default)`
Get(d, key, default) == IF key \in DOMAIN d THEN d[key] ELSE default

\* mutant of LookupLoop: a number that is already there keeps its text
RECURSIVE LookupKeepsFirst(_, _, _)
LookupKeepsFirst(affiliations, k, affiliation_lookup) ==
    IF k > Len(affiliations)
    THEN affiliation_lookup
    ELSE LookupKeepsFirst(affiliations, k + 1,
                          IF affiliations[k].number \in DOMAIN affiliation_lookup
                          THEN affiliation_lookup
                          ELSE Put(affiliation_lookup, affiliations[k].number,
                                   affiliations[k].text))

\* the dict comprehension `{aff["number"]: aff["text"] for aff in ...}` from
\* the k-th affiliation on
RECURSIVE LookupLoop(_, _, _)
LookupLoop(affiliations, k, affiliation_lookup) ==
    IF k > Len(affiliations)
    THEN affiliation_lookup
    ELSE LookupLoop(affiliations, k + 1,
                    Put(affiliation_lookup, affiliations[k].number, affiliations[k].text))

\* mutant of ResolveStep: a number that is not in the lookup gets an entry
\* with an empty text
ResolveOrPlaceholder(affiliations, aff_num, affiliation_lookup) ==
    Append(affiliations,
           [number |-> aff_num,
            text |-> Get(affiliation_lookup, aff_num, <<>>)])

\* `if aff_num in affiliation_lookup: formatted_author["affiliations"].append(...)`
ResolveStep(affiliations, aff_num, affiliation_lookup) ==
    IF aff_num \in DOMAIN affiliation_lookup
    THEN Append(affiliations,
                [number |-> aff_num, text |-> affiliation_lookup[aff_num]])
    ELSE affiliations

\* the `for aff_num in author.get("affiliation_numbers", [])` loop from the
\* k-th number on
RECURSIVE ResolveLoop(_, _, _, _)
ResolveLoop(affiliation_numbers, k, affiliation_lookup, affiliations) ==
    IF k > Len(affiliation_numbers)
    THEN affiliations
    ELSE ResolveLoop(affiliation_numbers, k + 1, affiliation_lookup,
                     ResolveStep(affiliations, affiliation_numbers[k],
                                 affiliation_lookup))

formatted_author(author, affiliation_lookup) ==
    [name |-> author.name,
     affiliations |-> ResolveLoop(Get(author, "affiliation_numbers", <<>>), 1,
                                  affiliation_lookup, <<>>),
     metadata |-> Get(author, "metadata", EmptyDict)]

format_authors_with_affiliations(metadata) ==
    LET affiliation_lookup ==
            LookupLoop(Get(metadata, "affiliations", <<>>), 1, EmptyDict)
        authors == Get(metadata, "authors", <<>>)
    IN  [j \in 1..Len(authors) |-> formatted_author(authors[j], affiliation_lookup)]

---------------------------------------------------------------------------
(* File wrapper: parse_latex_file.                                         *)

\* the exception classes that reading a file raises, each with the classes
\* it is an instance of
Bases ==
    [FileNotFoundError |-> {"FileNotFoundError", "OSError", "Exception", "BaseException"},
     PermissionError |-> {"PermissionError", "OSError", "Exception", "BaseException"},
     IsADirectoryError |-> {"IsADirectoryError", "OSError", "Exception", "BaseException"},
     UnicodeDecodeError |->
        {"UnicodeDecodeError", "UnicodeError", "ValueError", "Exception", "BaseException"}]

IsInstance(exc, cls) == cls \in Bases[exc]

\* what `open(file_path, "r", encoding="utf-8")` raises on the file f
OpenRaises(f) ==
    CASE f.status = "missing" -> "FileNotFoundError"
      [] f.status = "denied" -> "PermissionError"
      [] f.status = "directory" -> "IsADirectoryError"
      [] OTHER -> "none"

\* what `file.read()` raises on the opened file f
ReadRaises(f) == IF f.status = "undecodable" THEN "UnicodeDecodeError" ELSE "none"

\* the outcome of a call: a returned value or an exception that leaves it
Return(value) == [value |-> value, raised |-> "none"]

Raise(exc) == [value |-> None, raised |-> exc]

\* mutant of CaughtAsException: the second handler takes OSError only
CaughtAsOSError(exc) == IsInstance(exc, "OSError")

\* `except Exception as e`
CaughtAsException(exc) == IsInstance(exc, "Exception")

\* the handlers of the try statement, in their order
HandleReadFailure(exc, file_path) ==
    IF IsInstance(exc, "FileNotFoundError")
    THEN Return([error |-> <<"File ", file_path, " not found">>])
    ELSE IF CaughtAsException(exc)
         THEN Return([error |-> <<"Error reading file: ", exc, file_path>>])
         ELSE Raise(exc)

parse_latex_file(f, file_path) ==
    IF OpenRaises(f) # "none"
    THEN HandleReadFailure(OpenRaises(f), file_path)
    ELSE IF ReadRaises(f) # "none"
         THEN HandleReadFailure(ReadRaises(f), file_path)
         ELSE Return(extract_all_metadata(f.content))

---------------------------------------------------------------------------
(* latex.py: fill_value.                                                   *)

\* r+
RPlus(r) == RCat(<<r, RStar(r)>>)

\* \\COMMAND\{([^{}]+)\}
fill_pattern(command) ==
    RCat(<<RStr(<<"\\">> \o NameChars[command]),
           RChr("{"), RGrp(1, RPlus(NotBrace)), RChr("}")>>)

NoMatch == [start |-> -1, end |-> -1, groups |-> NoGroups]

\* re.search(r, t): the leftmost match, from position k on
RECURSIVE SearchFrom(_, _, _)
SearchFrom(r, t, k) ==
    IF k > Len(t) THEN NoMatch
    ELSE LET ms == Match(r, t, k, NoGroups)
         IN  IF ms = <<>>
             THEN SearchFrom(r, t, k + 1)
             ELSE [start |-> k, end |-> ms[1].pos, groups |-> ms[1].groups]

Search(r, t) == SearchFrom(r, t, 0)

Digits == {"0", "1", "2", "3", "4", "5", "6", "7", "8", "9"}

AsciiLetters == WordChars \ (Digits \cup {"_"})

\* the escapes of a replacement template that stand for one character
ControlChar == [n |-> "\n", t |-> "\t", r |-> "\r", f |-> "\f"]

\* a piece of expanded text in front of the expansion of the rest
Expanded(piece, rest) ==
    IF rest.ok THEN [ok |-> TRUE, text |-> piece \o rest.text] ELSE rest

\* the replacement template of re.sub from position k on, for the match m
\* in t: a backslash with a backslash is one backslash, with n, t, r, f a
\* control character, with a digit the group of that number (there is one
\* group), with another letter an error, with any other character itself
RECURSIVE ExpandTemplate(_, _, _, _)
ExpandTemplate(template, k, t, m) ==
    IF k >= Len(template) THEN [ok |-> TRUE, text |-> <<>>]
    ELSE IF At(template, k) # "\\"
    THEN Expanded(<<At(template, k)>>, ExpandTemplate(template, k + 1, t, m))
    ELSE LET d == At(template, k + 1)
             rest == ExpandTemplate(template, k + 2, t, m)
         IN  CASE d = "\\" -> Expanded(<<"\\">>, rest)
               [] d \in DOMAIN ControlChar -> Expanded(<<ControlChar[d]>>, rest)
               [] d \in Digits \ {"0"} /\ At(template, k + 2) \notin Digits ->
                     IF d = "1"
                     THEN Expanded(Group(t, m, 1), rest)
                     ELSE [ok |-> FALSE, text |-> <<>>]
               [] d \in AsciiLetters \ (DOMAIN ControlChar \cup {"a", "b", "v", "g"}) ->
                     [ok |-> FALSE, text |-> <<>>]
               [] d \notin AsciiLetters \cup Digits -> Expanded(<<"\\", d>>, rest)

\* re.sub(r, template, t, count=1)
SubFirst(r, template, t) ==
    LET m == Search(r, t)
        expansion == ExpandTemplate(template, 0, t, m)
    IN  IF m = NoMatch THEN Return(t)
        ELSE IF expansion.ok
        THEN Return(Slice(t, 0, m.start) \o expansion.text \o Slice(t, m.end, Len(t)))
        ELSE Raise("error")

fill_value(t, command, new_value) ==
    IF Search(fill_pattern(command), t) = NoMatch
    THEN Raise("ValueError")
    ELSE SubFirst(fill_pattern(command),
                  <<"\\", "\\">> \o NameChars[command] \o <<"{">> \o new_value \o <<"}">>,
                  t)

---------------------------------------------------------------------------
(* paper.py: Paper.add_metadata.                                           *)

\* str(n) for an integer n
RECURSIVE DecimalDigits(_)
DecimalDigits(n) ==
    LET digit == <<"0", "1", "2", "3", "4", "5", "6", "7", "8", "9">>[(n % 10) + 1]
    IN  IF n < 10 THEN <<digit>> ELSE DecimalDigits(n \div 10) \o <<digit>>

str_of_int(n) == IF n < 0 THEN <<"-">> \o DecimalDigits(0 - n) ELSE DecimalDigits(n)

\* mutant of MetadataFills: the last fill is left out
MetadataFillsWithoutPageEnd(volume_meta, page_start, end_page) ==
    <<<<"pubvolume", volume_meta.pubvolume>>,
      <<"pubyear", volume_meta.pubyear>>,
      <<"conferencename", volume_meta.conferencename>>,
      <<"conferenceeditors", volume_meta.conferenceeditors>>,
      <<"pagestart", str_of_int(page_start)>>>>

\* the six calls of fill_value, in their order: the command and the value
MetadataFills(volume_meta, page_start, end_page) ==
    <<<<"pubvolume", volume_meta.pubvolume>>,
      <<"pubyear", volume_meta.pubyear>>,
      <<"conferencename", volume_meta.conferencename>>,
      <<"conferenceeditors", volume_meta.conferenceeditors>>,
      <<"pagestart", str_of_int(page_start)>>,
      <<"pageend", str_of_int(end_page)>>>>

\* updated_paper after the fills from the k-th on, or the exception of the
\* first fill that raises
RECURSIVE FillLoop(_, _, _)
FillLoop(updated_paper, fills, k) ==
    IF k > Len(fills) THEN Return(updated_paper)
    ELSE LET filled == fill_value(updated_paper, fills[k][1], fills[k][2])
         IN  IF filled.raised # "none" THEN filled
             ELSE FillLoop(filled.value, fills, k + 1)

\* the outcome of add_metadata on the content of paper.tex: the content to
\* write, or the exception that leaves the method before the write
add_metadata(paper_content, volume_meta, page_start, end_page) ==
    FillLoop(paper_content, MetadataFills(volume_meta, page_start, end_page), 1)

---------------------------------------------------------------------------
(* doi.py: is_doi_placeholder, generate_doi; paper.py: Paper.add_doi.      *)

DOI_PREFIX == <<"1", "0", ".", "6", "3", "7", "4", "4">>

DOI_SUFFIX_LENGTH == 12

\* mutant of PlaceholderStrings: XXXXX is not among them
PlaceholderStringsOfZeros ==
    {<<"0", "0", "0", "0", "0", "/", "0", "0", "0", "0", "0">>, <<"0">>, <<"0", "0", "0", "0", "0">>}

\* the fixed placeholder strings
PlaceholderStrings ==
    {<<"0", "0", "0", "0", "0", "/", "0", "0", "0", "0", "0">>, <<"0">>, <<"0", "0", "0", "0", "0">>, <<"X", "X", "X", "X", "X">>}

\* mutant of PlaceholderChars: every digit and the dot count as well
PlaceholderCharsAndDigits == Digits \cup {"/", "@", "."}

\* the class [0/@] of the pattern ^[0/@]+$
PlaceholderChars == {"0", "/", "@"}

\* re.match(r"^[0/@]+$", s): one or more characters of the class from the
\* start, up to the end of s or to a newline that ends s
MatchesPlaceholderPattern(s) ==
    \E n \in 1..Len(s) :
        /\ \A j \in 1..n : s[j] \in PlaceholderChars
        /\ \/ n = Len(s)
           \/ n = Len(s) - 1 /\ s[Len(s)] = "\n"

\* is_doi_placeholder on a string: empty or blank, one of the fixed
\* strings, or matched by the pattern
IsPlaceholderString(doi) ==
    \/ doi = <<>> \/ Strip(doi) = <<>>
    \/ Strip(doi) \in PlaceholderStrings
    \/ MatchesPlaceholderPattern(Strip(doi))

\* is_doi_placeholder on the value found for doi: a list that is not empty
\* has no strip
is_doi_placeholder(doi) ==
    IF doi.kind = "list"
    THEN IF doi.val = <<>> THEN Return(TRUE) ELSE Raise("AttributeError")
    ELSE Return(IsPlaceholderString(doi.val))

\* the letters without O and l, as far as the model draws from them, and
\* the characters after the first
SuffixLetters == {"a", "X"}

SuffixChars == {"0", "b"}

\* the values generate_doi can return: the prefix, a slash, a letter and
\* suffix_length - 1 further characters (here all of them the same)
generate_doi(prefix, suffix_length) ==
    {prefix \o <<"/", letter>> \o [j \in 1..(suffix_length - 1) |-> c] :
        letter \in SuffixLetters, c \in SuffixChars}

\* pmeta.get("publication_info", {}).get("doi", "")
current_doi(pmeta) == Get(Get(pmeta, "publication_info", EmptyDict), "doi", Str(<<>>))

\* the outcome of add_doi on the content of paper.tex when generate_doi
\* gives new_doi: the content paper.tex has afterwards (its own when
\* nothing is written), or the exception that leaves the method
add_doi(paper_content, new_doi) ==
    LET pmeta == extract_all_metadata(paper_content)
        placeholder == is_doi_placeholder(current_doi(pmeta))
    IN  IF placeholder.raised # "none" THEN placeholder
        ELSE IF placeholder.value
        THEN fill_value(paper_content, "doi", new_doi)
        ELSE Return(paper_content)

---------------------------------------------------------------------------
(* utils.py: slugify.                                                      *)

\* unicodedata.normalize("NFKD", ch) for one character: the e with an acute
\* accent decomposes into e and the combining acute accent U+0301
NFKD(ch) == IF ch = "é" THEN <<"e", "U+0301">> ELSE <<ch>>

\* the characters for which unicodedata.combining is not 0
Combining == {"U+0301"}

UpperLetters ==
    <<"A", "B", "C", "D", "E", "F", "G", "H", "I", "J", "K", "L", "M",
      "N", "O", "P", "Q", "R", "S", "T", "U", "V", "W", "X", "Y", "Z">>

LowerLetters ==
    <<"a", "b", "c", "d", "e", "f", "g", "h", "i", "j", "k", "l", "m",
      "n", "o", "p", "q", "r", "s", "t", "u", "v", "w", "x", "y", "z">>

\* str.lower() for one character
Lower(ch) ==
    IF \E k \in 1..26 : UpperLetters[k] = ch
    THEN LowerLetters[CHOOSE k \in 1..26 : UpperLetters[k] = ch]
    ELSE ch

\* the class [0-9a-z]
SlugChars == {"0", "1", "2", "3", "4", "5", "6", "7", "8", "9"}
             \cup {LowerLetters[k] : k \in 1..26}

RECURSIVE NormalizeAll(_)
NormalizeAll(s) == IF s = <<>> THEN <<>> ELSE NFKD(Head(s)) \o NormalizeAll(Tail(s))

\* "".join(ch for ch in normalized if not unicodedata.combining(ch))
NoDiacritics(s) == SelectSeq(NormalizeAll(s), LAMBDA ch : ch \notin Combining)

LowerAll(s) == [k \in 1..Len(s) |-> Lower(s[k])]

\* re.sub(r"[^0-9a-z]+", " ", s): every run of other characters becomes
\* one space
RECURSIVE SpaceRuns(_, _)
SpaceRuns(s, k) ==
    IF k > Len(s) THEN <<>>
    ELSE IF s[k] \in SlugChars THEN <<s[k]>> \o SpaceRuns(s, k + 1)
    ELSE IF k > 1 /\ s[k - 1] \notin SlugChars THEN SpaceRuns(s, k + 1)
    ELSE <<" ">> \o SpaceRuns(s, k + 1)

\* s.replace(old, new): the occurrences of old from the left, none
\* overlapping another
RECURSIVE ReplaceFrom(_, _, _, _)
ReplaceFrom(s, k, old, new) ==
    IF k > Len(s) THEN <<>>
    ELSE IF k + Len(old) - 1 <= Len(s) /\ SubSeq(s, k, k + Len(old) - 1) = old
    THEN new \o ReplaceFrom(s, k + Len(old), old, new)
    ELSE <<s[k]>> \o ReplaceFrom(s, k + 1, old, new)

Replace(s, old, new) == ReplaceFrom(s, 1, old, new)

\* the common words, in the order of their removal
CommonWords == <<<<"a", "n", "d">>, <<"t", "h", "e">>, <<"a", "n">>, <<"a">>>>

RECURSIVE RemoveCommon(_, _)
RemoveCommon(s, k) ==
    IF k > Len(CommonWords) THEN s
    ELSE RemoveCommon(Replace(s, <<" ">> \o CommonWords[k] \o <<" ">>, <<" ">>), k + 1)

\* str.split(): the runs of characters between whitespace
RECURSIVE SplitWords(_, _, _)
SplitWords(s, k, word) ==
    IF k > Len(s) THEN IF word = <<>> THEN <<>> ELSE <<word>>
    ELSE IF s[k] \in Whitespace
    THEN (IF word = <<>> THEN <<>> ELSE <<word>>) \o SplitWords(s, k + 1, <<>>)
    ELSE SplitWords(s, k + 1, Append(word, s[k]))

\* mutant of WordFits: the length of the slug before the word is compared
FitsBefore(current_len, proposed_len, max_width) == current_len <= max_width

\* `proposed_len > max_width` is false
WordFits(current_len, proposed_len, max_width) == proposed_len <= max_width

\* the loop over the words: a word that would exceed max_width is skipped
RECURSIVE PackLoop(_, _, _, _, _)
PackLoop(words, k, slug_parts, current_len, max_width) ==
    IF k > Len(words) THEN slug_parts
    ELSE LET w == words[k]
             proposed_len == current_len + (IF slug_parts # <<>> THEN 1 ELSE 0) + Len(w)
         IN  IF w = <<>> THEN PackLoop(words, k + 1, slug_parts, current_len, max_width)
             ELSE IF ~WordFits(current_len, proposed_len, max_width)
             THEN PackLoop(words, k + 1, slug_parts, current_len, max_width)
             ELSE PackLoop(words, k + 1, Append(slug_parts, w), proposed_len, max_width)

\* sep.join(items)
RECURSIVE Join(_, _)
Join(sep, items) ==
    IF items = <<>> THEN <<>>
    ELSE IF Len(items) = 1 THEN items[1]
    ELSE items[1] \o sep \o Join(sep, Tail(items))

\* slugify(text, max_width) for a str and an int
slugify(t, max_width) ==
    IF max_width <= 0 THEN <<>>
    ELSE LET lowered == RemoveCommon(SpaceRuns(LowerAll(NoDiacritics(t)), 1), 1)
             words == SplitWords(lowered, 1, <<>>)
         IN  Join(<<"-">>, PackLoop(words, 1, <<>>, 0, max_width))

---------------------------------------------------------------------------
(* paper.py: Paper.__lt__, Paper.update_paper_order, Paper.copy_to_output  *)
(* as far as the paper order goes.                                         *)

\* Paper.__lt__: (self.volumeid, self.paperid) < (other.volumeid, other.paperid)
PaperLess(self, other) ==
    \/ self.volumeid < other.volumeid
    \/ self.volumeid = other.volumeid /\ self.paperid < other.paperid

\* a list as sorted() leaves it: no paper is less than one before it
IsSorted(ps) == \A j, k \in 1..Len(ps) : j < k => ~PaperLess(ps[k], ps[j])

\* the outcome of p.update_paper_order(order): the attribute is set first,
\* then paper.tex of the output directory is filled if it exists
update_paper_order(p, order) ==
    LET set == [p EXCEPT !.paper_order = order]
    IN  CASE p.tex = "absent" -> [paper |-> set, raised |-> "none"]
          [] p.tex = "unfillable" -> [paper |-> set, raised |-> "ValueError"]
          [] p.tex = "fillable" ->
                [paper |-> [set EXCEPT !.tex_order = order], raised |-> "none"]

\* the outcome of p.copy_to_output(order=order): paper.tex of the input
\* directory is copied and filled, then the attribute is set
copy_to_output(p, order) ==
    CASE p.tex = "absent" -> [paper |-> p, raised |-> "FileNotFoundError"]
      [] p.tex = "unfillable" -> [paper |-> p, raised |-> "ValueError"]
      [] p.tex = "fillable" ->
            [paper |-> [p EXCEPT !.tex_order = order, !.paper_order = order],
             raised |-> "none"]

---------------------------------------------------------------------------
(* cli.py: build, from the loop of its second step on, with what it calls  *)
(* of paper.py.                                                            *)

\* bool(v) for a value of the metadata
Truthy(v) == v.kind # "none" /\ v.val # <<>>

\* the number a string of decimal digits stands for
RECURSIVE DecimalValue(_)
DecimalValue(s) ==
    IF s = <<>> THEN 0
    ELSE 10 * DecimalValue(SubSeq(s, 1, Len(s) - 1))
         + (CHOOSE d \in 0..9 : DecimalDigits(d) = <<s[Len(s)]>>)

\* int(v) for a value of the metadata: a list is no number (TypeError), a
\* string of decimal digits is one, and another string, as far as the
\* model has them, is none (ValueError)
int(v) ==
    IF v.kind # "str" THEN Raise("TypeError")
    ELSE IF v.val # <<>> /\ \A j \in 1..Len(v.val) : v.val[j] \in Digits
    THEN Return(DecimalValue(v.val))
    ELSE Raise("ValueError")

\* mutant of ResetsPages: the page counter runs on across the volumes
ResetsPagesNever(cur_volume, p) == FALSE

\* `cur_volume != p.volumeid` of the compile loop: the page numbering
\* starts again
ResetsPages(cur_volume, p) == cur_volume # p.volumeid

\* `p.output_dir.name in failed_papers`
NamesFailed(p, failed) == \E j \in 1..Len(failed) : failed[j] = p.name

---------------------------------------------------------------------------
(* The extractors as a state machine: a document is drawn, then one        *)
(* extractor is applied to it.  Documents are made of a few items written  *)
(* one after the other; the items hold well-formed macros and broken ones. *)

RECURSIVE Flatten(_)
Flatten(items) == IF items = <<>> THEN <<>> ELSE items[1] \o Flatten(Tail(items))

Documents(Items, n) == {Flatten(d) : d \in StringsUpTo(Items, n)}

\* items of a document with simple macros
SimpleItems ==
    {<<"\\", "t", "i", "t", "l", "e", "{", "A", "}">>,
     <<"\\", "t", "i", "t", "l", "e", " ", "{", " ", "B", " ", "}">>,
     <<"\\", "t", "i", "t", "l", "e", "{", "A", "{", "b", "}", "c", "}">>,
     <<"\\", "t", "i", "t", "l", "e", "{", "A", "{", "b", "{", "c", "}", "}", "}">>,
     <<"\\", "t", "i", "t", "l", "e", "{", "U">>,
     <<"\\", "d", "o", "i", "{", "1", "}">>,
     <<"\\", "k", "e", "y", "w", "o", "r", "d", "s", "{", "k", "}">>,
     <<"\\", "t", "i", "t", "l", "e", "s", "{", "x", "}">>,
     <<"%">>,
     <<"}">>}

InitSimple ==
    /\ text \in Documents(SimpleItems, MaxSimpleItems)
    /\ start_pos = 0
    /\ fn = "none"
    /\ pc = "ready"
    /\ i = 0
    /\ count = 0
    /\ parts = <<>>
    /\ ret = None
    /\ NoSurroundings

\* one call of an extractor or of the aggregator on the document
Returns(f, value) ==
    /\ pc = "ready"
    /\ fn' = f
    /\ ret' = value
    /\ pc' = "done"
    /\ UNCHANGED <<text, start_pos, i, count, parts, surroundings, patterns, papers, locals>>

ExtractSimpleMacros ==
    Returns("extract_simple_macros", extract_simple_macros(text, DefaultMacroNames))

ExtractAllMetadata == Returns("extract_all_metadata", extract_all_metadata(text))

NextSimple == ExtractSimpleMacros \/ ExtractAllMetadata

SpecSimple == InitSimple /\ [][NextSimple]_vars

\* items of a document with authors: \\author macros and metadata blocks
AuthorItems ==
    {<<"\\", "a", "u", "t", "h", "o", "r", "{", "A", "}">>,
     <<"\\", "a", "u", "t", "h", "o", "r", "[", "1", ",", " ", "2", "]", " ", "{", "B", "}">>,
     <<"\\", "a", "u", "t", "h", "o", "r", "[", "]", "{", "A", "}">>,
     <<"\\", "a", "u", "t", "h", "o", "r", "[", " ", "]", "{", "A", "}">>,
     <<"\\", "a", "u", "t", "h", "o", "r", "[", ",", "1", "]", "{", "A", "}">>,
     <<"\\", "a", "u", "t", "h", "o", "r", " ", "[", "1", "]", "{", "A", "}">>,
     <<"\\", "a", "u", "t", "h", "o", "r", "{", "A", "{", "b", "}">>,
     <<"\\", "a", "u", "t", "h", "o", "r", "[", "1", "{", "A", "}">>,
     <<"[", "k", "=", "v", "]">>,
     <<" ", "[", "k", "=", "[", "x", ",", "y", "]", ",", " ", "f", "]">>,
     <<"[", "k", "=", "\\", "]", "]">>,
     <<"\\", "a", "u", "t", "h", "o", "r", "{", "C", "}", "[", "k">>,
     <<"[", "]">>}

\* items of a document with affiliations
AffiliationItems ==
    {<<"\\", "a", "f", "f", "i", "l", "i", "a", "t", "i", "o", "n", "{", "1", "}", "{", "M", "}">>,
     <<"\\", "a", "f", "f", "i", "l", "i", "a", "t", "i", "o", "n", " ", "{", " ", "0", "1", " ", "}", " ", "{", " ", "M", " ", "}">>,
     <<"\\", "a", "f", "f", "i", "l", "i", "a", "t", "i", "o", "n", "{", "x", "}", "{", "M", "{", "n", "}", "}">>,
     <<"\\", "a", "f", "f", "i", "l", "i", "a", "t", "i", "o", "n", "{", "1", "}", "{", "M">>,
     <<"\\", "a", "f", "f", "i", "l", "i", "a", "t", "i", "o", "n", "{", "2", "}">>,
     <<"\\", "a", "f", "f", "i", "l", "i", "a", "t", "i", "o", "n", "{", "a", "{", "b", "}", "{", "M", "}">>,
     <<"{", "N", "}">>}

InitAuthors ==
    /\ text \in Documents(AuthorItems, MaxAuthorItems)
                  \cup Documents(AffiliationItems, MaxAffiliationItems)
    /\ start_pos = 0
    /\ fn = "none"
    /\ pc = "ready"
    /\ i = 0
    /\ count = 0
    /\ parts = <<>>
    /\ ret = None
    /\ NoSurroundings

ExtractAuthorMacros == Returns("extract_author_macros", extract_author_macros(text))

ExtractAffiliationMacros ==
    Returns("extract_affiliation_macros", extract_affiliation_macros(text))

NextAuthors == ExtractAuthorMacros \/ ExtractAffiliationMacros

SpecAuthors == InitAuthors /\ [][NextAuthors]_vars

\* items of a document with commented-out macros and live ones
CommentedItems ==
    {<<"%", "\\", "t", "i", "t", "l", "e", "{", "A", "}">>,
     <<"%", "\\", "t", "i", "t", "l", "e", " ", "{", " ", "B", " ", "}">>,
     <<"%", "\\", "d", "o", "i", "{", "1", "}">>,
     <<"%", "\\", "x", "_", "1", "{", "A", "{", "b", "}", "c", "}">>,
     <<"%", "\\", "t", "i", "t", "l", "e", "{", "U">>,
     <<"\\", "t", "i", "t", "l", "e", "{", "L", "}">>,
     <<"%", " ", "\\", "d", "o", "i", "{", "2", "}">>,
     <<"\\", "p", "a", "g", "e", "e", "n", "d", "{", "9", "}">>,
     <<"%">>,
     <<"}">>}

InitCommented ==
    /\ text \in Documents(CommentedItems, MaxCommentedItems)
    /\ start_pos = 0
    /\ fn = "none"
    /\ pc = "ready"
    /\ i = 0
    /\ count = 0
    /\ parts = <<>>
    /\ ret = None
    /\ NoSurroundings

ExtractCommentedMacros ==
    Returns("extract_commented_macros", extract_commented_macros(text))

NextCommented == ExtractCommentedMacros \/ ExtractAllMetadata

SpecCommented == InitCommented /\ [][NextCommented]_vars

\* items of a document in which commented-out macros and live ones meet,
\* one of them a live macro that is closed by a later brace only
MixedItems ==
    {<<"%", "\\", "t", "i", "t", "l", "e", "{", "A", "}">>,
     <<"\\", "t", "i", "t", "l", "e", "{", "B", "}">>,
     <<"\\", "t", "i", "t", "l", "e", "{", "U">>,
     <<"}">>,
     <<"%", "\\", "a", "u", "t", "h", "o", "r", "{", "X", "}">>,
     <<"\\", "a", "u", "t", "h", "o", "r", "{", "V">>,
     <<"%", "\\", "d", "o", "i", " ", "{", " ", "1", "}">>,
     <<"%", "\\", "x", "{", "A", "}">>}

InitMixed ==
    /\ text \in Documents(MixedItems, MaxMixedItems)
    /\ start_pos = 0
    /\ fn = "none"
    /\ pc = "ready"
    /\ i = 0
    /\ count = 0
    /\ parts = <<>>
    /\ ret = None
    /\ NoSurroundings

NextMixed ==
    \/ ExtractSimpleMacros
    \/ ExtractAuthorMacros
    \/ ExtractCommentedMacros
    \/ ExtractAllMetadata

SpecMixed == InitMixed /\ [][NextMixed]_vars

\* items of a document with authors and affiliations
FormatItems ==
    {<<"\\", "a", "u", "t", "h", "o", "r", "[", "1", ",", " ", "3", "]", "{", "A", "}">>,
     <<"\\", "a", "u", "t", "h", "o", "r", "[", "2", ",", "1", "]", "{", "B", "}">>,
     <<"\\", "a", "u", "t", "h", "o", "r", "{", "C", "}">>,
     <<"\\", "a", "u", "t", "h", "o", "r", "[", "0", "1", "]", "{", "D", "}", "[", "k", "=", "v", "]">>,
     <<"\\", "a", "f", "f", "i", "l", "i", "a", "t", "i", "o", "n", "{", "1", "}", "{", "M", "}">>,
     <<"\\", "a", "f", "f", "i", "l", "i", "a", "t", "i", "o", "n", "{", "2", "}", "{", "N", "}">>,
     <<"\\", "a", "f", "f", "i", "l", "i", "a", "t", "i", "o", "n", "{", " ", "1", " ", "}", "{", "P", "}">>,
     <<"\\", "a", "f", "f", "i", "l", "i", "a", "t", "i", "o", "n", "{", "x", "}", "{", "Q">>}

InitFormat ==
    /\ text \in Documents(FormatItems, MaxFormatItems)
    /\ start_pos = 0
    /\ fn = "none"
    /\ pc = "ready"
    /\ i = 0
    /\ count = 0
    /\ parts = <<>>
    /\ ret = None
    /\ NoSurroundings

\* format_authors_with_affiliations on the record extract_all_metadata gave
FormatAuthorsWithAffiliations ==
    /\ pc = "done"
    /\ fn = "extract_all_metadata"
    /\ fn' = "format_authors_with_affiliations"
    /\ ret' = format_authors_with_affiliations(ret)
    /\ UNCHANGED <<text, start_pos, pc, i, count, parts, surroundings, patterns, papers, locals>>

NextFormat == ExtractAllMetadata \/ FormatAuthorsWithAffiliations

SpecFormat == InitFormat /\ [][NextFormat]_vars

\* items of a document whose affiliations share their numbers and whose
\* authors name a number more than once
SharedItems ==
    {<<"\\", "a", "u", "t", "h", "o", "r", "[", "1", ",", "1", "]", "{", "A", "}">>,
     <<"\\", "a", "u", "t", "h", "o", "r", "[", "2", ",", " ", "1", ",", "2", "]", "{", "B", "}">>,
     <<"\\", "a", "f", "f", "i", "l", "i", "a", "t", "i", "o", "n", "{", "1", "}", "{", "M", "}">>,
     <<"\\", "a", "f", "f", "i", "l", "i", "a", "t", "i", "o", "n", "{", "1", "}", "{", "P", "}">>,
     <<"\\", "a", "f", "f", "i", "l", "i", "a", "t", "i", "o", "n", "{", " ", "1", " ", "}", "{", "R", "}">>,
     <<"\\", "a", "f", "f", "i", "l", "i", "a", "t", "i", "o", "n", "{", "2", "}", "{", "N", "}">>}

InitShared ==
    /\ text \in Documents(SharedItems, MaxSharedItems)
    /\ start_pos = 0
    /\ fn = "none"
    /\ pc = "ready"
    /\ i = 0
    /\ count = 0
    /\ parts = <<>>
    /\ ret = None
    /\ NoSurroundings

NextShared == ExtractAllMetadata \/ FormatAuthorsWithAffiliations

SpecShared == InitShared /\ [][NextShared]_vars

\* the states of the file at file_path: not there, not permitted, a
\* directory, bytes that are no UTF-8, or a readable text
FileStatuses == {"missing", "denied", "directory", "undecodable", "readable"}

FilePaths == {"paper.tex", "volume/paper.tex"}

InitFile ==
    /\ \E status \in FileStatuses :
          file \in [status : {status},
                    content : IF status = "readable"
                              THEN Documents(CommentedItems, MaxFileItems)
                              ELSE {<<>>}]
    /\ args \in [file_path : FilePaths]
    /\ text = <<>>
    /\ start_pos = 0
    /\ fn = "none"
    /\ pc = "ready"
    /\ i = 0
    /\ count = 0
    /\ parts = <<>>
    /\ ret = None
    /\ raised = "none"
    /\ paper = <<>>
    /\ calls = <<>>
    /\ patterns = InitialPatterns
    /\ papers = <<>>
    /\ locals = <<>>

\* one call of parse_latex_file; text is its local `content` once read
ParseLatexFile ==
    /\ pc = "ready"
    /\ fn' = "parse_latex_file"
    /\ LET outcome == parse_latex_file(file, args.file_path)
       IN  /\ ret' = outcome.value
           /\ raised' = outcome.raised
    /\ text' = IF OpenRaises(file) = "none" /\ ReadRaises(file) = "none"
               THEN file.content ELSE text
    /\ pc' = "done"
    /\ UNCHANGED <<start_pos, i, count, parts, file, paper, args, calls, patterns, papers, locals>>

NextFile == ParseLatexFile

SpecFile == InitFile /\ [][NextFile]_vars

---------------------------------------------------------------------------
(* Concurrent calls of extract_all_metadata on one extractor object: each  *)
(* worker runs the statements of the function in order, and the statements *)
(* of different workers interleave.                                        *)

Workers == {"w1", "w2"}

\* items of the documents of the workers
CallItems ==
    {<<"\\", "t", "i", "t", "l", "e", "{", "A", "}", "\\", "d", "o", "i", "{", "1", "}">>,
     <<"\\", "a", "u", "t", "h", "o", "r", "[", "1", "]", "{", "B", "}">>,
     <<"\\", "a", "f", "f", "i", "l", "i", "a", "t", "i", "o", "n", "{", "1", "}", "{", "M", "}", "%", "\\", "x", "{", "c", "}">>}

\* the `metadata` dictionary as lines 318-325 create it
EmptyMetadata ==
    [title |-> PyNone, authors |-> <<>>, affiliations |-> <<>>, keywords |-> PyNone,
     publication_info |-> EmptyDict, commented_macros |-> EmptyDict]

\* a call before its first statement: the argument and the locals
NewCall(latex_content) ==
    [latex_content |-> latex_content, pc |-> "start", metadata |-> <<>>,
     simple_macros |-> <<>>, ret |-> None]

InitCalls ==
    /\ calls \in [Workers -> {NewCall(d) : d \in Documents(CallItems, MaxCallItems)}]
    /\ patterns = InitialPatterns
    /\ papers = <<>>
    /\ locals = <<>>
    /\ text = <<>>
    /\ start_pos = 0
    /\ fn = "extract_all_metadata"
    /\ pc = "ready"
    /\ i = 0
    /\ count = 0
    /\ parts = <<>>
    /\ ret = None
    /\ file = <<>>
    /\ raised = "none"
    /\ paper = <<>>
    /\ args = <<>>

\* mutant of LocalSimpleMacros: simple_macros is kept in one place for all
\* the calls, the one of the first worker
SharedSimpleMacros(cs, w) == cs["w1"].simple_macros

\* the local `simple_macros` of the call of worker w
LocalSimpleMacros(cs, w) == cs[w].simple_macros

\* worker w runs one statement: from position `from` to position `to`, with
\* the locals given in `changes`; nothing but the call of w changes
Statement(w, from, to, changes) ==
    /\ calls[w].pc = from
    /\ calls' = [calls EXCEPT ![w] =
                    [field \in DOMAIN calls[w] |->
                        IF field = "pc" THEN to
                        ELSE IF field \in DOMAIN changes THEN changes[field]
                        ELSE calls[w][field]]]
    /\ UNCHANGED <<text, start_pos, fn, pc, i, count, parts, ret,
                   file, raised, paper, args, patterns, papers, locals>>

\* metadata = {...}
CreateMetadata ==
    \E w \in Workers :
        Statement(w, "start", "simple", [metadata |-> EmptyMetadata])

\* simple_macros = self.extract_simple_macros(latex_content)
CallSimple ==
    \E w \in Workers :
        Statement(w, "simple", "organize",
                  [simple_macros |->
                      extract_simple_macros(calls[w].latex_content, DefaultMacroNames)])

\* the two `if ... in simple_macros` statements for title and keywords
OrganizeSimple ==
    \E w \in Workers :
        LET simple_macros == LocalSimpleMacros(calls, w)
            metadata == calls[w].metadata
        IN  Statement(w, "organize", "pub_info",
                      [metadata |->
                          [metadata EXCEPT
                             !.title = IF "title" \in DOMAIN simple_macros
                                       THEN simple_macros["title"] ELSE @,
                             !.keywords = IF "keywords" \in DOMAIN simple_macros
                                          THEN simple_macros["keywords"] ELSE @]])

\* the loop over pub_fields
FillPublicationInfo ==
    \E w \in Workers :
        Statement(w, "pub_info", "authors",
                  [metadata |->
                      [calls[w].metadata EXCEPT
                         !.publication_info =
                            PubInfoLoop(LocalSimpleMacros(calls, w), 1, @)]])

\* metadata["authors"] = self.extract_author_macros(latex_content)
CallAuthors ==
    \E w \in Workers :
        Statement(w, "authors", "affiliations",
                  [metadata |->
                      [calls[w].metadata EXCEPT
                         !.authors = extract_author_macros(calls[w].latex_content)]])

\* metadata["affiliations"] = self.extract_affiliation_macros(latex_content)
CallAffiliations ==
    \E w \in Workers :
        Statement(w, "affiliations", "commented",
                  [metadata |->
                      [calls[w].metadata EXCEPT
                         !.affiliations =
                            extract_affiliation_macros(calls[w].latex_content)]])

\* metadata["commented_macros"] = self.extract_commented_macros(latex_content)
CallCommented ==
    \E w \in Workers :
        Statement(w, "commented", "return",
                  [metadata |->
                      [calls[w].metadata EXCEPT
                         !.commented_macros =
                            extract_commented_macros(calls[w].latex_content)]])

\* return metadata
ReturnMetadata ==
    \E w \in Workers :
        Statement(w, "return", "done", [ret |-> calls[w].metadata])

NextCalls ==
    \/ CreateMetadata
    \/ CallSimple
    \/ OrganizeSimple
    \/ FillPublicationInfo
    \/ CallAuthors
    \/ CallAffiliations
    \/ CallCommented
    \/ ReturnMetadata

SpecCalls == InitCalls /\ [][NextCalls]_vars

---------------------------------------------------------------------------
(* Paper.add_metadata on the paper.tex of the output directory.            *)

\* the volume metadata, with frozen true, false or not given
VolumeMetas ==
    LET base == [pubvolume |-> <<"3">>, pubyear |-> <<"2", "0", "2", "5">>,
                 conferencename |-> <<"C", "H", "R">>,
                 conferenceeditors |-> <<"E", "d">>]
    IN  {base} \cup {[key \in DOMAIN base \cup {"frozen"} |->
                         IF key = "frozen" THEN frozen ELSE base[key]] :
                     frozen \in BOOLEAN}

\* the volume macros in front of the page macros of a paper.tex, all four
\* of them or without the editors
VolumeHeads ==
    {<<"\\", "p", "u", "b", "v", "o", "l", "u", "m", "e", "{", "1", "}", "\\", "p", "u", "b", "y", "e", "a", "r", "{", "2", "}", "\\", "c", "o", "n", "f", "e", "r", "e", "n", "c", "e", "n", "a", "m", "e", "{", "C", "}", "\\", "c", "o", "n", "f", "e", "r", "e", "n", "c", "e", "e", "d", "i", "t", "o", "r", "s", "{", "E", "}">>,
     <<"\\", "p", "u", "b", "v", "o", "l", "u", "m", "e", "{", "1", "}", "\\", "p", "u", "b", "y", "e", "a", "r", "{", "2", "}", "\\", "c", "o", "n", "f", "e", "r", "e", "n", "c", "e", "n", "a", "m", "e", "{", "C", "}">>}

\* items of the rest of a paper.tex
PageItems ==
    {<<"\\", "p", "a", "g", "e", "s", "t", "a", "r", "t", "{", "5", "}",
       "\\", "p", "a", "g", "e", "e", "n", "d", "{", "1", "0", "}">>,
     <<"\\", "p", "a", "g", "e", "s", "t", "a", "r", "t", "{", "5", "}">>,
     <<"\\", "p", "a", "g", "e", "e", "n", "d", "{", "1", "0", "}">>,
     <<"\\", "p", "a", "g", "e", "s", "t", "a", "r", "t", "{", "}">>,
     <<"%", "\\", "p", "a", "g", "e", "e", "n", "d", "{", "1", "}">>,
     <<"\\", "p", "a", "g", "e", "s", "t", "a", "r", "t", " ", "{", "4", "}">>}

PageArguments == {[page_start |-> 100, end_page |-> 120], [page_start |-> 7, end_page |-> 7]}

InitMetadata ==
    /\ file \in [status : {"readable"},
                  content : {head \o rest : head \in VolumeHeads,
                                            rest \in Documents(PageItems, MaxPageItems)}]
    /\ paper \in [volume_meta : VolumeMetas]
    /\ args \in PageArguments
    /\ text = <<>>
    /\ start_pos = 0
    /\ fn = "none"
    /\ pc = "ready"
    /\ i = 0
    /\ count = 0
    /\ parts = <<>>
    /\ ret = None
    /\ raised = "none"
    /\ calls = <<>>
    /\ patterns = InitialPatterns
    /\ papers = <<>>
    /\ locals = <<>>

\* one call of Paper.add_metadata; text is its local `paper_content`
AddMetadata ==
    /\ pc = "ready"
    /\ fn' = "add_metadata"
    /\ text' = file.content
    /\ LET outcome == add_metadata(file.content, paper.volume_meta,
                                   args.page_start, args.end_page)
       IN  /\ raised' = outcome.raised
           /\ file' = IF outcome.raised = "none"
                      THEN [file EXCEPT !.content = outcome.value]
                      ELSE file
    /\ pc' = "done"
    /\ UNCHANGED <<start_pos, i, count, parts, ret, paper, args, calls, patterns, papers, locals>>

NextMetadata == AddMetadata

SpecMetadata == InitMetadata /\ [][NextMetadata]_vars

---------------------------------------------------------------------------
(* Paper.add_doi on the paper.tex of the input directory, called any       *)
(* number of times.                                                        *)

\* items of a paper.tex
DoiItems ==
    {<<"\\", "d", "o", "i", "{", "0", "}">>,
     <<"\\", "d", "o", "i", "{", "1", "0", ".", "1", "/", "7", "}">>,
     <<"\\", "d", "o", "i", "{", "}">>,
     <<"\\", "d", "o", "i", "{", " ", "}">>,
     <<"\\", "d", "o", "i", " ", "{", "0", "0", "0", "0", "0", "/", "0", "0", "0", "0", "0", "}">>,
     <<"\\", "d", "o", "i", "{", "X", "X", "X", "X", "X", "}">>,
     <<"%", "\\", "d", "o", "i", "{", "@", "}">>,
     <<"\\", "t", "i", "t", "l", "e", "{", "T", "}">>}

InitDoi ==
    /\ file \in [status : {"readable"}, content : Documents(DoiItems, MaxDoiItems)]
    /\ text = <<>>
    /\ start_pos = 0
    /\ fn = "none"
    /\ pc = "ready"
    /\ i = 0
    /\ count = 0
    /\ parts = <<>>
    /\ ret = None
    /\ raised = "none"
    /\ paper = <<>>
    /\ args = <<>>
    /\ calls = <<>>
    /\ patterns = InitialPatterns
    /\ papers = <<>>
    /\ locals = <<>>

\* one call of Paper.add_doi; text is its local `paper_content`
AddDoi ==
    /\ fn' = "add_doi"
    /\ text' = file.content
    /\ \E new_doi \in generate_doi(DOI_PREFIX, DOI_SUFFIX_LENGTH) :
          LET outcome == add_doi(file.content, new_doi)
          IN  /\ raised' = outcome.raised
              /\ file' = IF outcome.raised = "none"
                         THEN [file EXCEPT !.content = outcome.value]
                         ELSE file
    /\ pc' = "done"
    /\ UNCHANGED <<start_pos, i, count, parts, ret, paper, args, calls, patterns, papers, locals>>

NextDoi == AddDoi

SpecDoi == InitDoi /\ [][NextDoi]_vars

---------------------------------------------------------------------------
(* fill_value called on its own.                                           *)

\* items of a text
FillItems ==
    {<<"\\", "t", "i", "t", "l", "e", "{", "O", "l", "d", "}">>,
     <<"\\", "t", "i", "t", "l", "e", "{", "B", "}">>,
     <<"\\", "t", "i", "t", "l", "e", "{", "}">>,
     <<"\\", "d", "o", "i", "{", "0", "}">>,
     <<"\\", "t", "i", "t", "l", "e", " ", "{", "C", "}">>,
     <<"x">>}

\* the commands and the new values of the calls
FillCommands == {"title", "doi"}

FillValues ==
    {<<"N">>,
     <<>>,
     <<"\\", "&">>,
     <<"\\", "t", "a", "u">>,
     <<"\\", "1">>,
     <<"\\", "q">>}

InitFill ==
    /\ text \in Documents(FillItems, MaxFillItems)
    /\ args \in [command : FillCommands, new_value : FillValues]
    /\ start_pos = 0
    /\ fn = "none"
    /\ pc = "ready"
    /\ i = 0
    /\ count = 0
    /\ parts = <<>>
    /\ ret = None
    /\ file = <<>>
    /\ raised = "none"
    /\ paper = <<>>
    /\ calls = <<>>
    /\ patterns = InitialPatterns
    /\ papers = <<>>
    /\ locals = <<>>

\* one call fill_value(text, command, new_value)
FillValue ==
    /\ pc = "ready"
    /\ fn' = "fill_value"
    /\ LET outcome == fill_value(text, args.command, args.new_value)
       IN  /\ raised' = outcome.raised
           /\ ret' = outcome.value
    /\ pc' = "done"
    /\ UNCHANGED <<text, start_pos, i, count, parts, file, paper, args, calls, patterns, papers, locals>>

NextFill == FillValue

SpecFill == InitFill /\ [][NextFill]_vars

---------------------------------------------------------------------------
(* is_doi_placeholder called on its own.                                   *)

\* characters of the strings handed to is_doi_placeholder
DoiAlphabet == {"0", "/", "@", "X", "1", " "}

\* whitespace put before and after a string
Pads == {<<>>, <<" ">>, <<"\n">>, <<"\t", " ">>}

\* the strings handed to is_doi_placeholder: short ones, and the fixed
\* placeholders and their neighbours, each with whitespace around it
DoiStrings ==
    {l \o core \o r :
        l \in Pads, r \in Pads,
        core \in StringsUpTo(DoiAlphabet, MaxDoiLen)
                 \cup {<<"0", "0", "0", "0", "0", "/", "0", "0", "0", "0", "0">>,
                       <<"0", "0", "0", "0", "0">>,
                       <<"X", "X", "X", "X", "X">>,
                       <<"X", "X", "X", "X">>, <<"X", "X", "X", "X", "X", "X">>, <<"0", "0", "0", "0", "0", "/", "0", "0", "0", "0", "X">>, <<"1", "0", ".", "1", "/", "7">>}}

InitPlaceholder ==
    /\ text \in DoiStrings
    /\ start_pos = 0
    /\ fn = "none"
    /\ pc = "ready"
    /\ i = 0
    /\ count = 0
    /\ parts = <<>>
    /\ ret = None
    /\ NoSurroundings

\* one call is_doi_placeholder(doi); text is its argument `doi`
IsDoiPlaceholder ==
    /\ pc = "ready"
    /\ fn' = "is_doi_placeholder"
    /\ LET outcome == is_doi_placeholder(Str(text))
       IN  /\ raised' = outcome.raised
           /\ ret' = outcome.value
    /\ pc' = "done"
    /\ UNCHANGED <<text, start_pos, i, count, parts, file, paper, args, calls, patterns, papers, locals>>

NextPlaceholder == IsDoiPlaceholder

SpecPlaceholder == InitPlaceholder /\ [][NextPlaceholder]_vars

---------------------------------------------------------------------------
(* slugify called on its own.                                              *)

\* characters of the texts handed to slugify
SlugAlphabet == {"a", "n", "B", "é", "-", " "}

InitSlug ==
    /\ text \in StringsUpTo(SlugAlphabet, MaxSlugLen)
    /\ args \in [max_width : (-1)..MaxWidth]
    /\ start_pos = 0
    /\ fn = "none"
    /\ pc = "ready"
    /\ i = 0
    /\ count = 0
    /\ parts = <<>>
    /\ ret = None
    /\ file = <<>>
    /\ raised = "none"
    /\ paper = <<>>
    /\ calls = <<>>
    /\ patterns = InitialPatterns
    /\ papers = <<>>
    /\ locals = <<>>

\* one call slugify(text, max_width)
Slugify ==
    /\ pc = "ready"
    /\ fn' = "slugify"
    /\ ret' = slugify(text, args.max_width)
    /\ pc' = "done"
    /\ UNCHANGED <<text, start_pos, i, count, parts, file, raised, paper, args, calls, patterns, papers, locals>>

NextSlug == Slugify

SpecSlug == InitSlug /\ [][NextSlug]_vars

---------------------------------------------------------------------------
(* cli.py: update_paper_ordering and the copy loop of prepare, one         *)
(* iteration of the loop a step.                                           *)

VolumeIds == {0, 1, 2}

PaperIds == {1, 2}

\* a Paper as its constructor leaves it: paper_order is 1; tex tells
\* whether its paper.tex is there and holds a \paperorder{value} that
\* fill_value finds, tex_order the value it holds
NewPapers ==
    [volumeid : VolumeIds, paperid : PaperIds, paper_order : {1},
     tex : {"fillable", "unfillable", "absent"}, tex_order : {0}]

\* the lists get_all_papers can return: sorted, one paper to a directory
PaperLists ==
    {ps \in StringsUpTo(NewPapers, MaxPapers) :
        /\ IsSorted(ps)
        /\ \A j, k \in 1..Len(ps) :
              j # k => <<ps[j].volumeid, ps[j].paperid>> # <<ps[k].volumeid, ps[k].paperid>>}

InitOrdering ==
    /\ papers \in PaperLists
    /\ locals = <<>>
    /\ text = <<>>
    /\ start_pos = 0
    /\ fn = "none"
    /\ pc = "ready"
    /\ i = 0
    /\ count = 0
    /\ parts = <<>>
    /\ ret = None
    /\ file = <<>>
    /\ raised = "none"
    /\ paper = <<>>
    /\ args = <<>>
    /\ calls = <<>>
    /\ patterns = InitialPatterns

\* cur_volume = 0; paper_order = 1, with no paper of the list visited
LoopStart == [cur_volume |-> 0, paper_order |-> 1, visited |-> 0]

\* update_paper_ordering(papers) up to its loop
UpdatePaperOrdering ==
    /\ pc = "ready"
    /\ fn' = "update_paper_ordering"
    /\ locals' = LoopStart
    /\ pc' = "loop"
    /\ UNCHANGED <<text, start_pos, i, count, parts, ret, file, raised, paper, args, calls, patterns, papers>>

\* prepare up to the loop of its second step
PrepareCopy ==
    /\ pc = "ready"
    /\ fn' = "prepare"
    /\ locals' = LoopStart
    /\ pc' = "loop"
    /\ UNCHANGED <<text, start_pos, i, count, parts, ret, file, raised, paper, args, calls, patterns, papers>>

\* mutant of NewVolume: the order is never reset
NewVolumeNever(cur_volume, p) == FALSE

\* `cur_volume != p.volumeid`
NewVolume(cur_volume, p) == cur_volume # p.volumeid

\* one iteration of the loop of either function
OrderingStep ==
    /\ pc = "loop"
    /\ fn \in {"update_paper_ordering", "prepare"}
    /\ locals.visited < Len(papers)
    /\ LET p == papers[locals.visited + 1]
           reset == NewVolume(locals.cur_volume, p)
           paper_order == IF reset THEN 1 ELSE locals.paper_order
           cur_volume == IF reset THEN p.volumeid ELSE locals.cur_volume
           outcome == IF fn = "prepare" THEN copy_to_output(p, paper_order)
                      ELSE update_paper_order(p, paper_order)
       IN  /\ papers' = [papers EXCEPT ![locals.visited + 1] = outcome.paper]
           /\ raised' = outcome.raised
           /\ IF outcome.raised = "none"
              THEN /\ locals' = [cur_volume |-> cur_volume,
                                 paper_order |-> paper_order + 1,
                                 visited |-> locals.visited + 1]
                   /\ pc' = pc
              ELSE /\ locals' = [locals EXCEPT !.cur_volume = cur_volume,
                                               !.paper_order = paper_order]
                   /\ pc' = "done"
    /\ UNCHANGED <<text, start_pos, fn, i, count, parts, ret, file, paper, args, calls, patterns>>

\* the list is exhausted
OrderingEnd ==
    /\ pc = "loop"
    /\ fn \in {"update_paper_ordering", "prepare"}
    /\ locals.visited = Len(papers)
    /\ pc' = "done"
    /\ UNCHANGED <<text, start_pos, fn, i, count, parts, ret, file, raised, paper, args, calls, patterns, papers, locals>>

NextOrdering == UpdatePaperOrdering \/ PrepareCopy \/ OrderingStep \/ OrderingEnd

SpecOrdering == InitOrdering /\ [][NextOrdering]_vars

---------------------------------------------------------------------------
(* build, one paper of its compile loop a step.                            *)

\* the paper.tex files of the output directory, as far as build reads and
\* writes them: the values get_latex_metadata finds for pagestart and
\* pageend, and whether add_metadata finds all the six commands it fills.
\* With both page values, with blank ones, with a blank \pageend, without
\* \pageend, and with a page value that is no number
BuildTexs ==
    {[pagestart |-> Str(<<"5">>), pageend |-> Str(<<"1", "0">>), fillable |-> TRUE],
     [pagestart |-> Str(<<>>), pageend |-> Str(<<>>), fillable |-> TRUE],
     [pagestart |-> Str(<<"5">>), pageend |-> Str(<<>>), fillable |-> TRUE],
     [pagestart |-> Str(<<"5">>), pageend |-> PyNone, fillable |-> FALSE],
     [pagestart |-> Str(<<"0", "5">>), pageend |-> Str(<<"x">>), fillable |-> TRUE]}

\* the names of the paper directories (the slug of the title)
BuildNames == {"intro", "notes"}

BuildVolumeIds == {1, 2}

\* the page counts of the compiled PDFs
NumPages == {1, 3}

\* a Paper as from_output_dir makes it, with its paper.tex and the
\* metadata of its volume; compiled and numbered tell what build has done
\* with it so far
OutputPapers(metas) ==
    {[volumeid |-> v, paperid |-> id, name |-> n, volume_meta |-> metas[v],
      tex |-> t, compiled |-> "no", num_pages |-> 0, numbered |-> <<>>] :
        v \in BuildVolumeIds, id \in PaperIds, n \in BuildNames, t \in BuildTexs}

\* the lists discover_output_papers can return: sorted, one paper to a
\* directory
OutputLists ==
    UNION {{ps \in StringsUpTo(OutputPapers(metas), MaxBuildPapers) :
               /\ IsSorted(ps)
               /\ \A j, k \in 1..Len(ps) :
                     j # k => /\ <<ps[j].volumeid, ps[j].paperid>> # <<ps[k].volumeid, ps[k].paperid>>
                              /\ <<ps[j].volumeid, ps[j].name>> # <<ps[k].volumeid, ps[k].name>>} :
           metas \in [BuildVolumeIds -> VolumeMetas]}

InitBuild ==
    /\ papers \in OutputLists
    /\ args \in [volume : {<<>>} \cup {<<v>> : v \in BuildVolumeIds}]
    /\ locals = <<>>
    /\ text = <<>>
    /\ start_pos = 0
    /\ fn = "none"
    /\ pc = "ready"
    /\ i = 0
    /\ count = 0
    /\ parts = <<>>
    /\ ret = None
    /\ file = <<>>
    /\ raised = "none"
    /\ paper = <<>>
    /\ calls = <<>>
    /\ patterns = InitialPatterns

\* the places in all_papers of the papers of `papers`
Selected ==
    IF args.volume = <<>> THEN [k \in 1..Len(papers) |-> k]
    ELSE SelectSeq([k \in 1..Len(papers) |-> k],
                   LAMBDA k : papers[k].volumeid = args.volume[1])

\* build up to its compile loop; no paper at all, or none of the volume
\* asked for, ends it with click.Abort.  update_paper_ordering, called on
\* the way, writes the order of the papers only (see UpdatePaperOrdering),
\* which the loop does not read
BuildStart ==
    /\ pc = "ready"
    /\ fn' = "build"
    /\ IF Selected = <<>>
       THEN /\ raised' = "Abort"
            /\ pc' = "done"
            /\ locals' = locals
       ELSE /\ raised' = raised
            /\ pc' = "compile"
            /\ locals' = [papers |-> Selected, page_start |-> 1, cur_volume |-> 0,
                          failed_papers |-> <<>>, visited |-> 0, received |-> <<>>]
    /\ UNCHANGED <<text, start_pos, i, count, parts, ret, file, paper, args, calls, patterns, papers>>

\* mutant of KeepsExistingPages: a frozen volume is numbered like any other
KeepsExistingPagesNever(p) == FALSE

\* is_frozen and both existing page values there
KeepsExistingPages(p) ==
    /\ Get(p.volume_meta, "frozen", FALSE)
    /\ Truthy(p.tex.pagestart)
    /\ Truthy(p.tex.pageend)

\* the metadata step for paper p with np pages at page_start: the
\* arguments of add_metadata and the new page_start, or the exception of
\* int or of add_metadata
MetadataStep(p, np, page_start) ==
    IF KeepsExistingPages(p)
    THEN LET existing_start == int(p.tex.pagestart)
             existing_end == int(p.tex.pageend)
         IN  IF existing_start.raised # "none" THEN existing_start
             ELSE IF existing_end.raised # "none" THEN existing_end
             ELSE IF ~p.tex.fillable THEN Raise("ValueError")
             ELSE Return([numbered |-> <<existing_start.value, existing_end.value>>,
                          page_start |-> existing_end.value + 1])
    ELSE IF ~p.tex.fillable THEN Raise("ValueError")
    ELSE Return([numbered |-> <<page_start, page_start + np - 1>>,
                 page_start |-> page_start + np])

\* paper.tex after add_metadata(page_start, end_page) has returned
Numbered(tex, r) ==
    [tex EXCEPT !.pagestart = Str(str_of_int(r[1])), !.pageend = Str(str_of_int(r[2]))]

\* one iteration of the compile loop: the two compilations succeed or
\* fail, the PDF of the first has np pages
CompileStep ==
    /\ pc = "compile"
    /\ locals.visited < Len(locals.papers)
    /\ \E first \in BOOLEAN, second \in BOOLEAN, np \in NumPages :
          LET k == locals.papers[locals.visited + 1]
              p == papers[k]
              reset == ResetsPages(locals.cur_volume, p)
              page_start == IF reset THEN 1 ELSE locals.page_start
              here == [locals EXCEPT !.cur_volume = p.volumeid,
                                     !.page_start = page_start]
              step == MetadataStep(p, np, page_start)
          IN  IF ~first
              THEN /\ papers' = [papers EXCEPT ![k].compiled = "first failed"]
                   /\ locals' = [here EXCEPT !.failed_papers = Append(@, p.name),
                                             !.visited = @ + 1]
                   /\ UNCHANGED <<pc, raised>>
              ELSE IF step.raised # "none"
              THEN /\ papers' = [papers EXCEPT ![k].compiled = "first",
                                                ![k].num_pages = np]
                   /\ locals' = here
                   /\ raised' = step.raised
                   /\ pc' = "done"
              ELSE /\ papers' = [papers EXCEPT
                                    ![k].compiled = IF second THEN "both" ELSE "second failed",
                                    ![k].num_pages = np,
                                    ![k].tex = Numbered(@, step.value.numbered),
                                    ![k].numbered = step.value.numbered]
                   /\ locals' = [here EXCEPT
                                    !.page_start = step.value.page_start,
                                    !.failed_papers = IF second THEN @ ELSE Append(@, p.name),
                                    !.visited = @ + 1]
                   /\ UNCHANGED <<pc, raised>>
    /\ UNCHANGED <<text, start_pos, fn, i, count, parts, ret, file, paper, args, calls, patterns>>

\* after the loop: `papers` without those whose name is in failed_papers
FilterFailed ==
    /\ pc = "compile"
    /\ locals.visited = Len(locals.papers)
    /\ locals' = [locals EXCEPT !.papers =
            IF locals.failed_papers = <<>> THEN @
            ELSE SelectSeq(@, LAMBDA k : ~NamesFailed(papers[k], locals.failed_papers))]
    /\ pc' = "generate"
    /\ UNCHANGED <<text, start_pos, fn, i, count, parts, ret, file, raised, paper, args, calls, patterns, papers>>

\* the papers of `papers` that belong to volume vol
PapersOfVolume(vol) == SelectSeq(locals.papers, LAMBDA k : papers[k].volumeid = vol)

\* the generation steps: the papers each of them is given
Generate ==
    /\ pc = "generate"
    /\ LET volumes == {papers[locals.papers[j]].volumeid : j \in 1..Len(locals.papers)}
           all_papers == [k \in 1..Len(papers) |-> k]
       IN  locals' = [locals EXCEPT !.received =
               [bibtex |-> locals.papers,
                html |-> locals.papers,
                volume_pages |-> [vol \in volumes |-> PapersOfVolume(vol)],
                crossref |-> [vol \in volumes |-> PapersOfVolume(vol)],
                sitemap |-> all_papers,
                rss |-> all_papers,
                toc |-> all_papers]]
    /\ pc' = "done"
    /\ UNCHANGED <<text, start_pos, fn, i, count, parts, ret, file, raised, paper, args, calls, patterns, papers>>

NextBuild == BuildStart \/ CompileStep \/ FilterFailed \/ Generate

SpecBuild == InitBuild /\ [][NextBuild]_vars

---------------------------------------------------------------------------
(* What the extractors are meant to find, stated on the text alone.        *)
(* Braces are counted plainly here (no escapes), as section 4.3 of the     *)
(* specification describes the macro argument.                             *)

\* the first position from k on that holds no whitespace (Len(t) if none)
FirstNonSpace(t, k) ==
    Min({q \in k..Len(t) : q = Len(t) \/ At(t, q) \notin Whitespace})

\* "{" minus "}" at positions q..j
BraceBalance(t, q, j) ==
    Cardinality({k \in q..j : At(t, k) = "{"})
        - Cardinality({k \in q..j : At(t, k) = "}"})

\* the "}" that closes the argument opened by a "{" at q, for an argument
\* that nests braces at most one level deep (empty when there is none)
ArgumentClose(t, q) ==
    IF q < Len(t) /\ At(t, q) = "{"
    THEN {e \in (q + 1)..(Len(t) - 1) :
            /\ At(t, e) = "}"
            /\ BraceBalance(t, q, e) = 0
            /\ \A j \in q..(e - 1) : BraceBalance(t, q, j) \in {1, 2}}
    ELSE {}

\* the starts of the occurrences a left-to-right search reports: the first
\* start, then the first start at or after the end of the occurrence before;
\* ends maps each position where the macro occurs to the end of it
RECURSIVE Leftmost(_, _)
Leftmost(ends, from) ==
    LET S == {k \in DOMAIN ends : k >= from}
    IN  IF S = {} THEN <<>> ELSE <<Min(S)>> \o Leftmost(ends, ends[Min(S)])

\* \name, whitespace, a braced argument: where the argument opens, whether
\* the macro occurs at k, and the end of each occurrence
SimpleArgOpen(t, name, k) == FirstNonSpace(t, k + 1 + Len(NameChars[name]))

SimpleEnds(t, name) ==
    [k \in {k \in 0..(Len(t) - 1) :
              /\ HasPrefixAt(t, k, <<"\\">> \o NameChars[name])
              /\ ArgumentClose(t, SimpleArgOpen(t, name, k)) # {}}
       |-> Min(ArgumentClose(t, SimpleArgOpen(t, name, k))) + 1]

\* the trimmed arguments of the occurrences of \name, in document order
SimpleValues(t, name) ==
    LET ends == SimpleEnds(t, name)
        occ == Leftmost(ends, 0)
    IN  [j \in 1..Len(occ) |->
            Strip(Slice(t, SimpleArgOpen(t, name, occ[j]) + 1, ends[occ[j]] - 1))]

MacroNameSet == {DefaultMacroNames[k] : k \in 1..Len(DefaultMacroNames)}

SimpleReturned == pc = "done" /\ fn = "extract_simple_macros"

AllReturned == pc = "done" /\ fn = "extract_all_metadata"

\* C6: a name with no occurrence is not a key of the result, a name with
\* one occurrence maps to its trimmed argument as a string, a name with more
\* maps to the list of the trimmed arguments in document order.
C6_ScalarOrList ==
    SimpleReturned =>
        /\ DOMAIN ret \subseteq MacroNameSet
        /\ \A name \in MacroNameSet :
              LET values == SimpleValues(text, name)
              IN  CASE Len(values) = 0 -> name \notin DOMAIN ret
                    [] Len(values) = 1 ->
                          name \in DOMAIN ret /\ ret[name] = Str(values[1])
                    [] OTHER ->
                          name \in DOMAIN ret /\ ret[name] = List(values)

\* title occurs twice and is a list of two different values, doi once
C6_Witness ==
    /\ SimpleReturned
    /\ DOMAIN ret = {"title", "doi"}
    /\ ret["title"] = List(<<<<"A">>, <<"B">>>>)
    /\ ret["doi"] = Str(<<"1">>)

\* the positions where \name is followed by whitespace and an opening brace
MacroOpenings(t, name) ==
    {k \in 0..(Len(t) - 1) :
        /\ HasPrefixAt(t, k, <<"\\">> \o NameChars[name])
        /\ SimpleArgOpen(t, name, k) < Len(t)
        /\ At(t, SimpleArgOpen(t, name, k)) = "{"}

\* the "{" at q is closed nowhere in the text
Unterminated(t, q) == \A e \in (q + 1)..(Len(t) - 1) : BraceBalance(t, q, e) # 0

\* \name occurs once, and the brace it opens is never closed
OnlyOccurrenceUnterminated(t, name) ==
    /\ Cardinality(MacroOpenings(t, name)) = 1
    /\ \A k \in MacroOpenings(t, name) : Unterminated(t, SimpleArgOpen(t, name, k))

\* C7: a recognized macro whose only occurrence opens a brace that is never
\* closed is no key of the extract_simple_macros result; in the record of
\* extract_all_metadata it is None (title, keywords) or missing from
\* publication_info.  No partial string is returned.
C7_UnterminatedAbsent ==
    \A name \in MacroNameSet :
        OnlyOccurrenceUnterminated(text, name) =>
            /\ SimpleReturned => name \notin DOMAIN ret
            /\ AllReturned =>
                  /\ name = "title" => ret.title = PyNone
                  /\ name = "keywords" => ret.keywords = PyNone
                  /\ name \notin DOMAIN ret.publication_info

\* the record for a document whose only \title is unterminated and that
\* holds a well-formed \doi in front of it
C7_Witness ==
    /\ AllReturned
    /\ OnlyOccurrenceUnterminated(text, "title")
    /\ ret.title = PyNone
    /\ DOMAIN ret.publication_info = {"doi"}

\* \author, an optional [...] right after it, whitespace, a braced name
AuthorHasBracket(t, k) ==
    LET a == k + 1 + Len(NameChars.author)
    IN  a < Len(t) /\ At(t, a) = "[" /\ \E c \in (a + 1)..(Len(t) - 1) : At(t, c) = "]"

\* the "]" that ends the optional bracket: the first one
AuthorBracketClose(t, k) ==
    Min({c \in (k + 2 + Len(NameChars.author))..(Len(t) - 1) : At(t, c) = "]"})

\* the text inside the optional bracket
AuthorBracket(t, k) ==
    Slice(t, k + 2 + Len(NameChars.author), AuthorBracketClose(t, k))

AuthorNameOpen(t, k) ==
    FirstNonSpace(t, IF AuthorHasBracket(t, k)
                     THEN AuthorBracketClose(t, k) + 1
                     ELSE k + 1 + Len(NameChars.author))

AuthorEnds(t) ==
    [k \in {k \in 0..(Len(t) - 1) :
              /\ HasPrefixAt(t, k, <<"\\">> \o NameChars.author)
              /\ ArgumentClose(t, AuthorNameOpen(t, k)) # {}}
       |-> Min(ArgumentClose(t, AuthorNameOpen(t, k))) + 1]

\* the starts of the \author macros, in document order
AuthorStarts(t) == Leftmost(AuthorEnds(t), 0)

AuthorName(t, k) == Strip(Slice(t, AuthorNameOpen(t, k) + 1, AuthorEnds(t)[k] - 1))

\* s cut at every comma, each piece trimmed: n commas give n + 1 tokens
CommaTokens(s) ==
    LET commas == {k \in 0..(Len(s) - 1) : At(s, k) = ","}
    IN  PiecesAt(s, commas, commas \cup {Len(s)})

AuthorsReturned == pc = "done" /\ fn = "extract_author_macros"

\* one record per \author macro, in document order, with the trimmed name
OneRecordPerAuthor ==
    /\ Len(ret) = Len(AuthorStarts(text))
    /\ \A j \in 1..Len(ret) : ret[j].name = AuthorName(text, AuthorStarts(text)[j])

\* C8 as stated: one record per \author macro in document order;
\* affiliation_numbers is the bracket cut at its commas, each token trimmed,
\* and is empty when there is no bracket.
C8_TokensOfBracket ==
    AuthorsReturned =>
        /\ OneRecordPerAuthor
        /\ \A j \in 1..Len(ret) :
              LET k == AuthorStarts(text)[j]
              IN  ret[j].affiliation_numbers =
                      IF AuthorHasBracket(text, k)
                      THEN CommaTokens(AuthorBracket(text, k))
                      ELSE <<>>

\* C8 amended: the same, where a bracket that is empty or holds only
\* whitespace gives the empty sequence as well.
C8_TokensOfNonBlankBracket ==
    AuthorsReturned =>
        /\ OneRecordPerAuthor
        /\ \A j \in 1..Len(ret) :
              LET k == AuthorStarts(text)[j]
              IN  ret[j].affiliation_numbers =
                      IF AuthorHasBracket(text, k) /\ Strip(AuthorBracket(text, k)) # <<>>
                      THEN CommaTokens(AuthorBracket(text, k))
                      ELSE <<>>

\* three authors in document order: two trimmed tokens, none, one empty
\* token and one number
C8_Witness ==
    /\ AuthorsReturned
    /\ Len(ret) = 3
    /\ ret[1].name = <<"B">> /\ ret[1].affiliation_numbers = <<<<"1">>, <<"2">>>>
    /\ ret[2].name = <<"A">> /\ ret[2].affiliation_numbers = <<>>
    /\ ~AuthorHasBracket(text, AuthorStarts(text)[2])
    /\ ret[3].affiliation_numbers = <<<<>>, <<"1">>>>

\* the mapping parse_key_value_pairs is to return for content c: every
\* non-empty top-level segment gives its key, the last segment of a key
\* gives the value
KeyValueMap(c) ==
    LET segs == TopLevelSegments(c)
        ne == NonEmptySegments(c)
    IN  [key \in {SegKey(segs[k]) : k \in ne} |->
            SegValue(segs[Max({k \in ne : SegKey(segs[k]) = key})])]

\* where a metadata block may open: after the name's "}" and whitespace
MetadataOpen(t, k) == FirstNonSpace(t, AuthorEnds(t)[k])

\* the metadata of the author at k: the key/value mapping of the balanced
\* bracket after the name, empty when there is no such bracket
AuthorMetadataMap(t, k) ==
    LET q == MetadataOpen(t, k)
        f == "extract_balanced_brackets"
    IN  IF PointsAtOpen(t, q, f) /\ MatchingClose(t, q, f) # {}
        THEN KeyValueMap(Slice(t, q + 1, Min(MatchingClose(t, q, f))))
        ELSE EmptyDict

\* C9: the metadata of each author is the key/value mapping of the balanced
\* bracket that follows the name's closing brace and whitespace, and is
\* empty when no bracket follows or the bracket is not closed.
C9_MetadataOfBracket ==
    AuthorsReturned =>
        /\ Len(ret) = Len(AuthorStarts(text))
        /\ \A j \in 1..Len(ret) :
              ret[j].metadata = AuthorMetadataMap(text, AuthorStarts(text)[j])

\* an author with a block after whitespace that holds a nested bracket with
\* a comma, followed by an author with a block that is not closed
C9_Witness ==
    /\ AuthorsReturned
    /\ Len(ret) = 2
    /\ DOMAIN ret[1].metadata = {<<"k">>, <<"f">>}
    /\ ret[1].metadata[<<"k">>] = Str(<<"[", "x", ",", "y", "]">>)
    /\ ret[1].metadata[<<"f">>] = True
    /\ MetadataOpen(text, AuthorStarts(text)[1]) > AuthorEnds(text)[AuthorStarts(text)[1]]
    /\ PointsAtOpen(text, MetadataOpen(text, AuthorStarts(text)[2]),
                    "extract_balanced_brackets")
    /\ ret[2].metadata = EmptyDict

\* \affiliation, whitespace, {number}, whitespace, {text}: the number ends
\* at the first "}", the text nests braces at most one level deep
AffiliationNumberOpen(t, k) == FirstNonSpace(t, k + 1 + Len(NameChars.affiliation))

AffiliationNumberClose(t, k) ==
    LET q == AffiliationNumberOpen(t, k)
    IN  IF q < Len(t) /\ At(t, q) = "{" /\ \E c \in (q + 1)..(Len(t) - 1) : At(t, c) = "}"
        THEN Min({c \in (q + 1)..(Len(t) - 1) : At(t, c) = "}"})
        ELSE Len(t)

AffiliationTextOpen(t, k) ==
    IF AffiliationNumberClose(t, k) < Len(t)
    THEN FirstNonSpace(t, AffiliationNumberClose(t, k) + 1)
    ELSE Len(t)

AffiliationEnds(t) ==
    [k \in {k \in 0..(Len(t) - 1) :
              /\ HasPrefixAt(t, k, <<"\\">> \o NameChars.affiliation)
              /\ ArgumentClose(t, AffiliationTextOpen(t, k)) # {}}
       |-> Min(ArgumentClose(t, AffiliationTextOpen(t, k))) + 1]

AffiliationStarts(t) == Leftmost(AffiliationEnds(t), 0)

AffiliationsReturned == pc = "done" /\ fn = "extract_affiliation_macros"

\* C10: one {number, text} record per \affiliation{number}{text} macro, in
\* document order; number is the token as written, trimmed, and text is the
\* trimmed second argument.
C10_NumberAndText ==
    AffiliationsReturned =>
        /\ Len(ret) = Len(AffiliationStarts(text))
        /\ \A j \in 1..Len(ret) :
              LET k == AffiliationStarts(text)[j]
              IN  /\ ret[j].number =
                        Strip(Slice(text, AffiliationNumberOpen(text, k) + 1,
                                    AffiliationNumberClose(text, k)))
                  /\ ret[j].text =
                        Strip(Slice(text, AffiliationTextOpen(text, k) + 1,
                                    AffiliationEnds(text)[k] - 1))

\* two affiliations in document order; the number 01 keeps its zero, the
\* other number is no numeral
C10_Witness ==
    /\ AffiliationsReturned
    /\ Len(ret) = 2
    /\ ret[1] = [number |-> <<"0", "1">>, text |-> <<"M">>]
    /\ ret[2] = [number |-> <<"x">>, text |-> <<"M", "{", "n", "}">>]

---------------------------------------------------------------------------
(* Commented-out macros.                                                   *)

\* the end of the longest run of word characters from k on
WordRunEnd(t, k) ==
    Min({q \in k..Len(t) : q = Len(t) \/ At(t, q) \notin WordChars})

\* %\name, whitespace, a braced argument: where the argument opens and the
\* end of each occurrence
CommentedArgOpen(t, k) == FirstNonSpace(t, WordRunEnd(t, k + 2))

CommentedEnds(t) ==
    [k \in {k \in 0..(Len(t) - 1) :
              /\ HasPrefixAt(t, k, <<"%", "\\">>)
              /\ WordRunEnd(t, k + 2) > k + 2
              /\ ArgumentClose(t, CommentedArgOpen(t, k)) # {}}
       |-> Min(ArgumentClose(t, CommentedArgOpen(t, k))) + 1]

\* the starts of the commented occurrences in document order, the name and
\* the trimmed content of the occurrence that starts at k
CommentedStarts(t) == Leftmost(CommentedEnds(t), 0)

CommentedName(t, k) == Slice(t, k + 2, WordRunEnd(t, k + 2))

CommentedContent(t, k) ==
    Strip(Slice(t, CommentedArgOpen(t, k) + 1, CommentedEnds(t)[k] - 1))

CommentedReturned == pc = "done" /\ fn = "extract_commented_macros"

\* C11: the result of extract_commented_macros has one entry per distinct
\* name that occurs as %\name{content}, and the entry of a name is the
\* trimmed content of the last occurrence of that name in document order.
C11_LastOccurrenceWins ==
    CommentedReturned =>
        LET occ == CommentedStarts(text)
            Named(name) == {j \in 1..Len(occ) : CommentedName(text, occ[j]) = name}
        IN  /\ DOMAIN ret = {CommentedName(text, occ[j]) : j \in 1..Len(occ)}
            /\ \A name \in DOMAIN ret :
                  ret[name] = CommentedContent(text, occ[Max(Named(name))])

\* title is commented out twice with different contents around a commented
\* doi: the later title is the entry
C11_Witness ==
    /\ CommentedReturned
    /\ Len(CommentedStarts(text)) = 3
    /\ CommentedContent(text, CommentedStarts(text)[1]) = <<"A">>
    /\ DOMAIN ret = {<<"t", "i", "t", "l", "e">>, <<"d", "o", "i">>}
    /\ ret[<<"t", "i", "t", "l", "e">>] = <<"B">>

---------------------------------------------------------------------------
(* The record of extract_all_metadata.                                     *)

\* the six names of the publication fields
PublicationNames ==
    {"pubyear", "pubvolume", "pagestart", "pageend", "doi", "addbibresource"}

\* C12: the keys of publication_info are exactly the publication fields
\* that extract_simple_macros finds in the text (the ones that occur in
\* it), each with the value of the simple-macro mapping; title, keywords
\* and every other name are no keys of it.
C12_PublicationInfoKeys ==
    AllReturned =>
        LET simple == extract_simple_macros(text, DefaultMacroNames)
        IN  /\ DOMAIN ret.publication_info = PublicationNames \cap DOMAIN simple
            /\ DOMAIN ret.publication_info =
                  {name \in PublicationNames : Len(SimpleValues(text, name)) > 0}
            /\ \A name \in DOMAIN ret.publication_info :
                  ret.publication_info[name] = simple[name]

\* a record with a title and two publication fields: publication_info
\* holds the two fields and not the title
C12_Witness ==
    /\ AllReturned
    /\ ret.title = Str(<<"L">>)
    /\ DOMAIN ret.publication_info = {"doi", "pageend"}
    /\ ret.publication_info["doi"] = Str(<<"1">>)
    /\ ret.publication_info["pageend"] = Str(<<"9">>)


\* a value that is None or one string
NullOrString(v) == v = PyNone \/ v.kind = "str"

\* C13: in the record of extract_all_metadata, title and keywords are each
\* None or a single string, whatever the text.
C13_TitleKeywordsNullOrString ==
    AllReturned => NullOrString(ret.title) /\ NullOrString(ret.keywords)

---------------------------------------------------------------------------
(* Authors joined with their affiliations.                                 *)

FormatReturned == pc = "done" /\ fn = "format_authors_with_affiliations"

\* the authors and the affiliations of the record that was formatted
RecordAuthors == extract_author_macros(text)

RecordAffiliations == extract_affiliation_macros(text)

\* the numbers some affiliation carries, and the text a number resolves to
KnownNumbers(affs) == {affs[q].number : q \in 1..Len(affs)}

TextOfNumber(affs, n) ==
    affs[Max({q \in 1..Len(affs) : affs[q].number = n})].text

\* the positions of the tokens of an author that match an affiliation, and
\* the m-th of them
MatchingTokens(author, affs) ==
    {k \in 1..Len(author.affiliation_numbers) :
        author.affiliation_numbers[k] \in KnownNumbers(affs)}

NthMatching(author, affs, m) ==
    CHOOSE k \in MatchingTokens(author, affs) :
        Cardinality({x \in MatchingTokens(author, affs) : x <= k}) = m

\* C14: one record per author in author order, with the author's name and
\* metadata; its affiliations are the author's tokens that are equal, as
\* character sequences, to the number of some affiliation, in the author's
\* order, each with the text of that affiliation; the other tokens leave no
\* trace.
C14_UnresolvedDropped ==
    FormatReturned =>
        LET authors == RecordAuthors
            affs == RecordAffiliations
        IN  /\ Len(ret) = Len(authors)
            /\ \A j \in 1..Len(ret) :
                  /\ ret[j].name = authors[j].name
                  /\ ret[j].metadata = authors[j].metadata
                  /\ Len(ret[j].affiliations) =
                        Cardinality(MatchingTokens(authors[j], affs))
                  /\ \A m \in 1..Len(ret[j].affiliations) :
                        LET n == authors[j].affiliation_numbers[
                                     NthMatching(authors[j], affs, m)]
                        IN  ret[j].affiliations[m] =
                                [number |-> n, text |-> TextOfNumber(affs, n)]

\* two authors and one affiliation: the first author keeps 1 and loses 3,
\* the second, whose only token is 01, keeps nothing
C14_Witness ==
    /\ FormatReturned
    /\ Len(ret) = 2
    /\ RecordAuthors[1].affiliation_numbers = <<<<"1">>, <<"3">>>>
    /\ ret[1].affiliations = <<[number |-> <<"1">>, text |-> <<"M">>]>>
    /\ RecordAuthors[2].affiliation_numbers = <<<<"0", "1">>>>
    /\ ret[2].affiliations = <<>>

---------------------------------------------------------------------------
(* The file wrapper.                                                       *)

FileReturned == pc = "done" /\ fn = "parse_latex_file"

\* C15: parse_latex_file lets no exception out when the file is missing or
\* cannot be read: it returns a record whose only key is "error", with a
\* message; when the file is read it returns the record of
\* extract_all_metadata for the content of the file.
C15_ErrorRecordOnIOFailure ==
    FileReturned =>
        /\ raised = "none"
        /\ file.status # "readable" =>
              /\ DOMAIN ret = {"error"}
              /\ Len(ret.error) > 0
        /\ file.status = "readable" => ret = extract_all_metadata(file.content)

\* the file cannot be decoded: the error record comes from the second handler
C15_Witness ==
    /\ FileReturned
    /\ file.status = "undecodable"
    /\ raised = "none"
    /\ ret = [error |-> <<"Error reading file: ", "UnicodeDecodeError", args.file_path>>]

---------------------------------------------------------------------------
(* Concurrent calls.                                                       *)

\* every call that has returned has the record of its document
CallsReturnTheirRecord ==
    \A w \in Workers :
        calls[w].pc = "done" =>
            calls[w].ret = extract_all_metadata(calls[w].latex_content)

\* a step writes the locals of at most one call and leaves the extractor
\* object as it is
StepsWriteOneCall ==
    /\ patterns' = patterns
    /\ Cardinality({w \in Workers : calls'[w] # calls[w]}) <= 1

\* C16: under every interleaving of the statements of concurrent calls of
\* extract_all_metadata on one extractor object, each call returns the
\* record it returns when it runs alone, and no statement writes anything
\* that another call reads: only the locals of the call that runs it.
C16_CallsIndependent == []CallsReturnTheirRecord /\ [][StepsWriteOneCall]_vars

\* the second call has returned the record of its document while the
\* first, on another document, is between two of its statements
C16_Witness ==
    /\ calls["w1"].pc = "pub_info"
    /\ calls["w1"].metadata.title = Str(<<"A">>)
    /\ calls["w2"].pc = "done"
    /\ calls["w2"].latex_content # calls["w1"].latex_content
    /\ Len(calls["w2"].ret.authors) = 1

---------------------------------------------------------------------------
(* Page numbers written by add_metadata.                                   *)

\* the first brace after the opening brace at q (Len(t) if there is none)
NextBrace(t, q) ==
    Min({e \in (q + 1)..Len(t) : e = Len(t) \/ At(t, e) \in {"{", "}"}})

\* where the value of a \command at k opens
ValueOpen(command, k) == k + 1 + Len(NameChars[command])

\* the positions where \command{value} stands with a value that is not
\* empty and holds no brace
Valued(t, command) ==
    {k \in 0..(Len(t) - 1) :
        /\ HasPrefixAt(t, k, <<"\\">> \o NameChars[command] \o <<"{">>)
        /\ NextBrace(t, ValueOpen(command, k)) < Len(t)
        /\ At(t, NextBrace(t, ValueOpen(command, k))) = "}"
        /\ NextBrace(t, ValueOpen(command, k)) > ValueOpen(command, k) + 1}

ValueAt(t, command, k) ==
    Slice(t, ValueOpen(command, k) + 1, NextBrace(t, ValueOpen(command, k)))

\* the values of all the \command{value} of t
ValuesOf(t, command) == {ValueAt(t, command, k) : k \in Valued(t, command)}

\* t with the value of the first \command{value} replaced by v
WithFirstValue(t, command, v) ==
    LET q == ValueOpen(command, Min(Valued(t, command)))
    IN  Slice(t, 0, q + 1) \o v \o Slice(t, NextBrace(t, q), Len(t))

MetadataCalled == pc = "done" /\ fn = "add_metadata"

\* volume_meta.get("frozen", False)
Frozen == "frozen" \in DOMAIN paper.volume_meta /\ paper.volume_meta.frozen

\* C17: with frozen set to true in volume_meta, add_metadata leaves the
\* values of \pagestart and \pageend in paper.tex as they were, whatever
\* page numbers it is given.
C17_FrozenKeepsPages ==
    (MetadataCalled /\ Frozen) =>
        /\ ValuesOf(file.content, "pagestart") = ValuesOf(text, "pagestart")
        /\ ValuesOf(file.content, "pageend") = ValuesOf(text, "pageend")

FilledCommands ==
    {"pubvolume", "pubyear", "conferencename", "conferenceeditors", "pagestart", "pageend"}

---------------------------------------------------------------------------
(* The DOI of a paper.                                                     *)

\* the DOI values found in a paper.tex, in document order
DoiValues(t) == SimpleValues(t, "doi")

\* a value that stands for no DOI: blank, a fixed placeholder, or zeros,
\* slashes and at-signs only
PlaceholderValue(v) ==
    \/ v = <<>>
    \/ v \in {<<"0">>, <<"0", "0", "0", "0", "0">>, <<"X", "X", "X", "X", "X">>}
    \/ \A j \in 1..Len(v) : v[j] \in {"0", "/", "@"}

\* the DOI extracted from paper.tex: none at all counts as the empty one
ExtractedDoiIsPlaceholder(t) ==
    \/ Len(DoiValues(t)) = 0
    \/ Len(DoiValues(t)) = 1 /\ PlaceholderValue(DoiValues(t)[1])

ExtractedDoiIsReal(t) == ~ExtractedDoiIsPlaceholder(t)

\* a value of the form 10.63744/suffix with a suffix of twelve letters and
\* digits that starts with a letter
GeneratedValue(v) ==
    /\ Len(v) = 9 + 12
    /\ SubSeq(v, 1, 9) = <<"1", "0", ".", "6", "3", "7", "4", "4", "/">>
    /\ v[10] \in AsciiLetters \ {"O", "l"}
    /\ \A j \in 11..Len(v) : v[j] \in AsciiLetters \cup Digits

\* a call of add_doi on a paper.tex whose DOI is no placeholder leaves the
\* file as it is
RealDoiKept == ExtractedDoiIsReal(file.content) => file' = file

\* whenever paper.tex changes, a placeholder has become a generated DOI
OnlyPlaceholderReplaced ==
    file' # file =>
        /\ ExtractedDoiIsPlaceholder(file.content)
        /\ Len(DoiValues(file'.content)) = 1
        /\ GeneratedValue(DoiValues(file'.content)[1])
        /\ ExtractedDoiIsReal(file'.content)

\* C19: in every sequence of add_doi calls, a call that finds a DOI that is
\* no placeholder does not change paper.tex; paper.tex changes only from a
\* placeholder to a generated DOI, which is none, so at most once.
C19_RealDoiNeverOverwritten == [][RealDoiKept /\ OnlyPlaceholderReplaced]_vars

\* a second call on a paper.tex that got its DOI from the first
C19_Witness ==
    /\ fn = "add_doi"
    /\ raised = "none"
    /\ text = file.content
    /\ Len(DoiValues(text)) = 1
    /\ GeneratedValue(DoiValues(text)[1])

DoiCalled == pc = "done" /\ fn = "add_doi"

\* C20: when the DOI of paper.tex is a placeholder (an empty or blank value
\* is one), add_doi returns and the DOI extracted from paper.tex afterwards
\* is a generated one, of the form prefix/suffix, and no placeholder.
C20_PlaceholderReplaced ==
    (DoiCalled /\ ExtractedDoiIsPlaceholder(text)) =>
        /\ raised = "none"
        /\ Len(DoiValues(file.content)) = 1
        /\ GeneratedValue(DoiValues(file.content)[1])
        /\ ~PlaceholderValue(DoiValues(file.content)[1])

---------------------------------------------------------------------------
(* fill_value.                                                             *)

FillCalled == pc = "done" /\ fn = "fill_value"

\* C21: fill_value(text, command, new_value) returns the text with the
\* value in the braces of the first \command{value} replaced by new_value
\* and every other character as it was, later \command{value} included;
\* with no \command{value} in the text it raises ValueError.
C21_FirstValueReplaced ==
    FillCalled =>
        IF Valued(text, args.command) # {}
        THEN /\ raised = "none"
             /\ ret = WithFirstValue(text, args.command, args.new_value)
        ELSE raised = "ValueError"

---------------------------------------------------------------------------
(* is_doi_placeholder.                                                     *)

PlaceholderCalled == pc = "done" /\ fn = "is_doi_placeholder"

\* s without the whitespace at its two ends
Trimmed(s) ==
    LET first == {k \in 1..Len(s) : s[k] \notin {" ", "\n", "\t"}}
    IN  IF first = {} THEN <<>>
        ELSE [j \in 1..(Max(first) - Min(first) + 1) |-> s[Min(first) + j - 1]]

\* a trimmed value that is empty, one of the four fixed strings, or made of
\* zeros, slashes and at-signs
TrimmedIsPlaceholder(v) ==
    \/ v = <<>>
    \/ v \in {<<"0", "0", "0", "0", "0", "/", "0", "0", "0", "0", "0">>, <<"0">>, <<"0", "0", "0", "0", "0">>, <<"X", "X", "X", "X", "X">>}
    \/ \A j \in 1..Len(v) : v[j] \in {"0", "/", "@"}

\* C22: is_doi_placeholder(doi) returns true exactly when the trimmed doi is
\* empty, one of 00000/00000, 0, 00000, XXXXX, or made only of 0, / and @,
\* and false for every other string; whitespace added at the two ends of
\* the string does not change the result.
C22_PlaceholderExactly ==
    PlaceholderCalled =>
        /\ raised = "none"
        /\ ret = TrimmedIsPlaceholder(Trimmed(text))
        /\ \A l \in Pads, r \in Pads :
               is_doi_placeholder(Str(l \o text \o r)) = Return(ret)

\* XXXXX with whitespace around it is a placeholder
C22_Witness ==
    /\ PlaceholderCalled
    /\ text = <<" ", "X", "X", "X", "X", "X", "\n">>
    /\ ret = TRUE

---------------------------------------------------------------------------
(* slugify.                                                                *)

SlugCalled == pc = "done" /\ fn = "slugify"

\* the text in lower case without its diacritics
NormalizedInput(t) == LowerAll(NoDiacritics(t))

\* the whole words of t: the runs of lower-case letters and digits that
\* no letter or digit stands next to
WholeWords(t) ==
    {w \in {SubSeq(t, lo, hi) : lo \in 1..Len(t), hi \in 1..Len(t)} :
        \E lo \in 1..Len(t), hi \in 1..Len(t) :
            /\ lo <= hi
            /\ w = SubSeq(t, lo, hi)
            /\ \A j \in lo..hi : t[j] \in SlugChars
            /\ lo = 1 \/ t[lo - 1] \notin SlugChars
            /\ hi = Len(t) \/ t[hi + 1] \notin SlugChars}

\* the positions of the dashes of s, with the two ends
DashesAndEnds(s) == {0, Len(s) + 1} \cup {k \in 1..Len(s) : s[k] = "-"}

\* the stretches of s between neighbouring dashes
DashParts(s) ==
    UNION {{SubSeq(s, lo + 1, hi - 1) :
               hi \in {nxt \in DashesAndEnds(s) :
                   lo < nxt /\ \A mid \in DashesAndEnds(s) : ~(lo < mid /\ mid < nxt)}} :
           lo \in DashesAndEnds(s)}

---------------------------------------------------------------------------
(* The order of the papers of a volume.                                    *)

OrderingRuns == fn \in {"update_paper_ordering", "prepare"}

\* the place of the k-th paper of the list among the papers of its volume
PlaceInVolume(k) ==
    Cardinality({j \in 1..k : papers[j].volumeid = papers[k].volumeid})

\* the papers of the list that belong to volume v
OfVolume(v) == {k \in 1..Len(papers) : papers[k].volumeid = v}

\* C24: on a list sorted by (volumeid, paperid), every paper the loop of
\* update_paper_ordering or of prepare has passed has as its order its
\* place among the papers of its volume, in the file too when it has one
\* to fill; once the loop is through, the orders of the papers of a
\* volume with n papers are 1, ..., n, each once.
C24_OrdersCountWithinVolume ==
    OrderingRuns =>
        /\ \A k \in 1..locals.visited :
              /\ papers[k].paper_order = PlaceInVolume(k)
              /\ papers[k].tex = "fillable" => papers[k].tex_order = PlaceInVolume(k)
        /\ (pc = "done" /\ raised = "none") =>
              /\ locals.visited = Len(papers)
              /\ \A v \in VolumeIds :
                    {papers[k].paper_order : k \in OfVolume(v)}
                        = 1..Cardinality(OfVolume(v))

\* two papers of volume 1 and one of volume 2, all three ordered
C24_Witness ==
    /\ fn = "update_paper_ordering"
    /\ pc = "done"
    /\ raised = "none"
    /\ Len(papers) = 3
    /\ papers[1].volumeid = 1 /\ papers[2].volumeid = 1 /\ papers[3].volumeid = 2
    /\ papers[2].paper_order = 2
    /\ papers[3].tex_order = 1

---------------------------------------------------------------------------
(* The scanners come to an end.                                            *)

\* the iterations of the while loop that a scanner at index k with depth c
\* still performs
RECURSIVE IterationsFrom(_, _, _, _, _)
IterationsFrom(t, s, k, c, f) ==
    IF k >= Len(t) THEN 0
    ELSE LET st == ScanIter(t, s, k, c, f)
         IN  IF st.done THEN 1 ELSE 1 + IterationsFrom(t, s, st.i, st.count, f)

\* inside the loop the index is between start_pos and the length of the
\* text, and no more iterations are left than characters from the index on
WithinText ==
    pc = "loop" =>
        /\ start_pos <= i /\ i <= Len(text)
        /\ IterationsFrom(text, start_pos, i, count, fn) <= Len(text) - i

\* an iteration after which the loop goes on has moved the index forward
IndexIncreases == (pc = "loop" /\ pc' = "loop") => i' > i

\* C25: both scanners come to an end on every text and start index: the
\* index of their one loop grows with every iteration and stays within
\* the text, so a call runs at most len(text) - start_pos iterations
\* whatever the depth of the nesting, and every started call returns.
C25_ScannersTerminate ==
    /\ []WithinText
    /\ [][IndexIncreases]_vars
    /\ (pc = "loop") ~> (pc = "done")

\* a scanner four levels deep at the last character of its text
C25_Witness ==
    /\ pc = "loop"
    /\ text = <<"{", "{", "{", "{", "a">>
    /\ start_pos = 0
    /\ i = 4
    /\ count = 4


---------------------------------------------------------------------------
(* The page numbers build gives to the papers.                             *)

\* build has entered its compile loop
BuildRuns == fn = "build" /\ locals # <<>>

\* the volume of the paper is not frozen
NotFrozen(p) == ~Get(p.volume_meta, "frozen", FALSE)

\* the papers of the selection before the j-th that are of its volume and
\* were given page numbers
NumberedBefore(j) ==
    {h \in 1..(j - 1) : /\ papers[Selected[h]].volumeid = papers[Selected[j]].volumeid
                        /\ papers[Selected[h]].numbered # <<>>}

\* the last page of the volume before the j-th paper of the selection
PreviousEnd(j) ==
    IF NumberedBefore(j) = {} THEN 0
    ELSE papers[Selected[Max(NumberedBefore(j))]].numbered[2]

\* C26: in build the page ranges that add_metadata is given within a
\* volume that is not frozen follow one another without gap or overlap:
\* the first paper whose first compilation succeeds starts at page 1
\* (also after a change of the volume), every later one starts at the page
\* after the last page of the paper numbered before it, a range has as
\* many pages as the PDF, and a paper whose first compilation failed gets
\* no pages.
C26_PagesConsecutive ==
    BuildRuns =>
        \A j \in 1..locals.visited :
            LET p == papers[Selected[j]]
            IN  NotFrozen(p) =>
                    IF p.compiled = "first failed"
                    THEN p.numbered = <<>>
                    ELSE /\ p.numbered = <<PreviousEnd(j) + 1, PreviousEnd(j) + p.num_pages>>
                         /\ p.tex.pagestart = Str(str_of_int(PreviousEnd(j) + 1))
                         /\ p.tex.pageend = Str(str_of_int(PreviousEnd(j) + p.num_pages))

\* two papers of a volume that is not frozen: three pages, then one page
C26_Witness ==
    /\ BuildRuns
    /\ pc = "done"
    /\ Len(papers) = 2
    /\ locals.visited = 2
    /\ papers[1].volumeid = papers[2].volumeid
    /\ NotFrozen(papers[1])
    /\ papers[1].numbered = <<1, 3>>
    /\ papers[2].numbered = <<4, 4>>

---------------------------------------------------------------------------
(* The papers the generation steps of build are given.                     *)

\* the papers of the selection for which both compilations succeeded
CompiledTwice == SelectSeq(Selected, LAMBDA k : papers[k].compiled = "both")

\* those of them that belong to volume vol
CompiledTwiceOf(vol) == SelectSeq(CompiledTwice, LAMBDA k : papers[k].volumeid = vol)

\* build has run its generation steps
Generated == BuildRuns /\ pc = "done" /\ raised = "none"

\* C27: the BibTeX, HTML, volume page and Crossref steps of build are
\* given exactly the selected papers for which both compilations
\* succeeded, and sitemap, RSS and TOC are given all the papers found.
C27_CompiledPapersGenerated ==
    Generated =>
        /\ locals.received.bibtex = CompiledTwice
        /\ locals.received.html = CompiledTwice
        /\ \A vol \in BuildVolumeIds :
              /\ CompiledTwiceOf(vol) # <<>> =>
                    /\ vol \in DOMAIN locals.received.volume_pages
                    /\ locals.received.volume_pages[vol] = CompiledTwiceOf(vol)
                    /\ locals.received.crossref[vol] = CompiledTwiceOf(vol)
              /\ CompiledTwiceOf(vol) = <<>> => vol \notin DOMAIN locals.received.volume_pages
        /\ locals.received.sitemap = [k \in 1..Len(papers) |-> k]
        /\ locals.received.rss = [k \in 1..Len(papers) |-> k]
        /\ locals.received.toc = [k \in 1..Len(papers) |-> k]

---------------------------------------------------------------------------
(* The page numbers of a frozen volume.                                    *)

\* the paper the next iteration of the compile loop is about
NextPaper == papers[locals.papers[locals.visited + 1]]

\* the same paper after the iteration
NextPaperAfter == papers'[locals.papers[locals.visited + 1]]

\* an iteration of the compile loop has given the paper page numbers
MetadataStepDone ==
    /\ BuildRuns
    /\ pc = "compile"
    /\ locals.visited < Len(locals.papers)
    /\ NextPaperAfter.numbered # <<>>

\* the running page counter at the metadata step of the iteration
RunningPage == IF locals.cur_volume # NextPaper.volumeid THEN 1 ELSE locals.page_start

\* the paper is of a frozen volume and its paper.tex has both page values
FrozenWithPages(p) ==
    /\ ~NotFrozen(p)
    /\ p.tex.pagestart \notin {PyNone, Str(<<>>)}
    /\ p.tex.pageend \notin {PyNone, Str(<<>>)}

\* the page numbers of paper.tex stay what they were, and the next paper
\* starts after them
ExistingPagesKept ==
    (MetadataStepDone /\ FrozenWithPages(NextPaper)) =>
        /\ int(NextPaperAfter.tex.pagestart) = int(NextPaper.tex.pagestart)
        /\ int(NextPaperAfter.tex.pageend) = int(NextPaper.tex.pageend)
        /\ locals'.page_start = int(NextPaper.tex.pageend).value + 1

\* the paper is numbered from the running page counter
NumberedFromCounter ==
    (MetadataStepDone /\ ~NotFrozen(NextPaper) /\ ~FrozenWithPages(NextPaper)) =>
        /\ NextPaperAfter.tex.pagestart = Str(str_of_int(RunningPage))
        /\ NextPaperAfter.tex.pageend
              = Str(str_of_int(RunningPage + NextPaperAfter.num_pages - 1))
        /\ locals'.page_start = RunningPage + NextPaperAfter.num_pages

\* C28: in build a paper of a frozen volume whose paper.tex has both
\* pagestart and pageend has the same page numbers after the metadata
\* step, and the next paper starts at the page after its pageend; a paper
\* of a frozen volume without one of the two values is numbered from the
\* running page counter as in a volume that is not frozen.
C28_FrozenPagesKept == [][ExistingPagesKept /\ NumberedFromCounter]_vars

\* a frozen volume: its first paper had no page numbers and got pages 1 to
\* 3, the second had pages 5 to 10 and kept them
C28_Witness ==
    /\ BuildRuns
    /\ locals.visited = 2
    /\ ~NotFrozen(papers[1])
    /\ papers[1].volumeid = papers[2].volumeid
    /\ papers[1].numbered = <<1, 3>>
    /\ papers[2].numbered = <<5, 10>>
    /\ papers[2].tex.pagestart = Str(<<"5">>)
    /\ locals.page_start = 11


---------------------------------------------------------------------------
(* Commented-out macros in the results of the other extractors.            *)

\* the occurrences extract_commented_macros finds in the text
CommentedOccurrences == FindIter(commented_pattern, text)

\* the simple macros whose name the commented-out occurrence has
RecognizedNames(occ) ==
    {DefaultMacroNames[k] : k \in 1..Len(DefaultMacroNames)}
        \cap {name \in DOMAIN NameChars : NameChars[name] = Group(text, occ, 1)}

\* the values a result of extract_simple_macros has for a macro
ResultValues(simple_macros, name) ==
    IF name \notin DOMAIN simple_macros THEN {}
    ELSE IF simple_macros[name].kind = "list"
    THEN {simple_macros[name].val[k] : k \in 1..Len(simple_macros[name].val)}
    ELSE {simple_macros[name].val}

\* the occurrence is one of the matches, from its backslash to its
\* closing brace
MatchedBy(matches, occ) ==
    \E k \in 1..Len(matches) :
        matches[k].start = occ.start + 1 /\ matches[k].end = occ.end

\* the occurrence lies within one of the matches that begins before it
WithinEarlier(matches, occ) ==
    \E k \in 1..Len(matches) :
        matches[k].start < occ.start /\ matches[k].end > occ.end

\* the commented-out occurrence is counted among the values of macro name
CountedAsSimple(simple_macros, name, occ) ==
    /\ MatchedBy(FindIter(simple_pattern(name), text), occ)
    /\ Strip(Group(text, occ, 2)) \in ResultValues(simple_macros, name)

\* a commented-out \author is counted among the authors
CountedAsAuthor(authors, occ) ==
    /\ MatchedBy(FindIter(author_pattern, text), occ)
    /\ \E k \in 1..Len(authors) : authors[k].name = Strip(Group(text, occ, 2))

\* %\title{A}\title{B} gives the title [A, B] and the commented title A
TitleExample ==
    text = <<"%", "\\", "t", "i", "t", "l", "e", "{", "A", "}",
             "\\", "t", "i", "t", "l", "e", "{", "B", "}">> =>
        /\ extract_all_metadata(text).title = List(<<<<"A">>, <<"B">>>>)
        /\ extract_all_metadata(text).commented_macros[NameChars.title] = <<"A">>

\* C29 as it is written: every %\name{v} with the name of a simple macro
\* is counted among the values of that macro in the result of
\* extract_simple_macros (and a %\author{v} among the authors).
C29_EveryCommentedCounted ==
    LET simple_macros == extract_simple_macros(text, DefaultMacroNames)
        authors == extract_author_macros(text)
    IN  pc = "done" =>
        /\ \A k \in 1..Len(CommentedOccurrences) :
              LET occ == CommentedOccurrences[k]
              IN  /\ \A name \in RecognizedNames(occ) :
                        CountedAsSimple(simple_macros, name, occ)
                  /\ Group(text, occ, 1) = NameChars.author =>
                        CountedAsAuthor(authors, occ)
        /\ TitleExample

\* C29, amended: every %\name{v} with the name of a simple macro is
\* counted among the values of that macro in the result of
\* extract_simple_macros, and a %\author{v} among the authors, unless it
\* lies within the braces of an earlier occurrence of the same macro,
\* which then takes it as a part of its own value; %\title{A}\title{B}
\* gives the title [A, B] and the commented title A.
C29_CommentedCountedUnlessWithin ==
    LET simple_macros == extract_simple_macros(text, DefaultMacroNames)
        authors == extract_author_macros(text)
    IN  pc = "done" =>
        /\ \A k \in 1..Len(CommentedOccurrences) :
              LET occ == CommentedOccurrences[k]
              IN  /\ \A name \in RecognizedNames(occ) :
                        \/ WithinEarlier(FindIter(simple_pattern(name), text), occ)
                        \/ CountedAsSimple(simple_macros, name, occ)
                  /\ Group(text, occ, 1) = NameChars.author =>
                        \/ WithinEarlier(FindIter(author_pattern, text), occ)
                        \/ CountedAsAuthor(authors, occ)
        /\ TitleExample

\* extract_all_metadata on %\title{A}\title{B}
C29_Witness ==
    /\ fn = "extract_all_metadata"
    /\ pc = "done"
    /\ text = <<"%", "\\", "t", "i", "t", "l", "e", "{", "A", "}",
                "\\", "t", "i", "t", "l", "e", "{", "B", "}">>
    /\ ret.title = List(<<<<"A">>, <<"B">>>>)
    /\ ret.commented_macros[NameChars.title] = <<"A">>


---------------------------------------------------------------------------
(* Affiliations that share a number.                                       *)

\* the affiliations with number n, in document order
WithNumber(affs, n) == SelectSeq(affs, LAMBDA aff : aff.number = n)

\* the references of an author that some affiliation answers
Answered(author, affs) ==
    SelectSeq(author.affiliation_numbers, LAMBDA n : WithNumber(affs, n) # <<>>)

\* C30: when several affiliations have the same number, every reference of
\* an author to that number resolves to the text of the last of them in
\* the document, and every reference gives one entry of its own: a number
\* an author names twice stands twice in the author's affiliations.
C30_LastAffiliationWins ==
    FormatReturned =>
        \A j \in 1..Len(ret) :
            LET refs == Answered(RecordAuthors[j], RecordAffiliations)
            IN  /\ Len(ret[j].affiliations) = Len(refs)
                /\ \A k \in 1..Len(refs) :
                      LET same == WithNumber(RecordAffiliations, refs[k])
                      IN  ret[j].affiliations[k] =
                              [number |-> refs[k], text |-> same[Len(same)].text]

\* number 1 is given twice, the second time as `{ 1 }` with the text R;
\* the author names it twice and gets R twice
C30_Witness ==
    /\ FormatReturned
    /\ Len(RecordAuthors) = 1
    /\ Len(WithNumber(RecordAffiliations, <<"1">>)) = 2
    /\ RecordAffiliations[1].text = <<"M">>
    /\ RecordAuthors[1].affiliation_numbers = <<<<"1">>, <<"1">>>>
    /\ ret[1].affiliations = <<[number |-> <<"1">>, text |-> <<"R">>],
                               [number |-> <<"1">>, text |-> <<"R">>]>>

=============================================================================
